---- MODULE Spec2Model ----
(***************************************************************************)
(* Model of dbSeries (src/dbnode/storage/series/series.go): one series     *)
(* instance with its block cache, its write buffer, the block pool and the *)
(* wired list that owns disk-retrieved blocks under the LRU cache policy.  *)
(*                                                                         *)
(* Spec     : the cache side; every section under the lock is one step,    *)
(*            the wired-list update of a retrieval a later step.           *)
(* LoadSpec : the bootstrap and flush side, with the same steps.           *)
(* ConcSpec : the retrieval callbacks, the read path and the wired list    *)
(*            worker run as threads that take and release the series lock. *)
(* BridgeSpec : the callbacks of the retrieval bridge, called with any     *)
(*            identity on an instance that is closed and reused.           *)
(* InputSpec : Tick applied to any series state, the cache filled directly *)
(*            as the tests of the package do.                              *)
(* MetadataSpec : FetchBlocksMetadata applied to any cache and buffer.     *)
(* ReuseSpec : one instance bootstrapped, written, closed and reset under  *)
(*            any identity and options.                                     *)
(* HandoffSpec : ConcSpec under CacheLRU with resets to another identity.   *)
(* PurgeSpec : a Tick whose return is a step of its own, among writes and  *)
(*            retrievals.                                                   *)
(* LimitSpec : the new-series limit of the server applied to any cluster   *)
(*            limit and topology, beside a goroutine that sets a client     *)
(*            consistency level in the same runtime options.                *)
(* WatchSpec : kvWatchBootstrappers, its goroutine and the kv store, under   *)
(*            the fairness of the scheduler and the timer.                  *)
(* LockSpec : the lock calls and field accesses of every operation, for   *)
(*            two callers on two series instances.                         *)
(* FairSpec : ConcSpec under the fairness of the scheduler, the lock and   *)
(*            the channel.                                                 *)
(***************************************************************************)
EXTENDS Integers, Sequences, FiniteSets, Bags, TLC

\* ---------------------------------------------------------------- bounds
BlockSize == 2
RetentionPeriod == 1
WiredTimeout == 1
MaxTime == 3
MaxBlocks == 2
ChanCap == 1

\* ------------------------------------------------------------- constants
NoID == 0
NoBlock == 0
DefaultID == 1
\* the id of another incarnation of the pooled instance
StaleID == 2
CallIDs == {DefaultID, StaleID}

bootstrapNotStarted == "bootstrapNotStarted"
bootstrapped == "bootstrapped"

CacheAll == "CacheAll"
CacheNone == "CacheNone"
CacheRecentlyRead == "CacheRecentlyRead"
CacheLRU == "CacheLRU"
CachePolicies == {CacheAll, CacheNone, CacheRecentlyRead, CacheLRU}
\* a CachePolicy value that is none of the four
CacheUnknown == "CacheUnknown"
AnyPolicies == CachePolicies \cup {CacheUnknown}

WarmWrite == "WarmWrite"
ColdWrite == "ColdWrite"
WriteTypes == {WarmWrite, ColdWrite}

NoErr == "nil"
ErrSeriesAllDatapointsExpired == "ErrSeriesAllDatapointsExpired"
errSeriesAlreadyBootstrapped == "errSeriesAlreadyBootstrapped"
errSeriesNotBootstrapped == "errSeriesNotBootstrapped"
errPersist == "errPersist"

FlushOutcomeErr == "FlushOutcomeErr"
FlushOutcomeBlockDoesNotExist == "FlushOutcomeBlockDoesNotExist"
FlushOutcomeFlushedToDisk == "FlushOutcomeFlushedToDisk"

Times == 0..MaxTime
\* block starts are aligned to the block size
Starts == {t \in Times : t % BlockSize = 0}
Slots == 1..MaxBlocks

\* the threads next to the shard: a retrieval callback, a reader, the worker
\* goroutine of the wired list
Retrievers == {"retriever"}
Reader == "reader"
Worker == "worker"
Ticker == "ticker"
Procs == Retrievers \cup {Reader, Worker, Ticker}
NoProc == "none"

\* the series under test runs outside a server
NoServer == "none"

VARIABLES
    now,            \* opts.ClockOptions().NowFn()()
    id,             \* dbSeries.id (NoID after Close)
    bs,             \* dbSeries.bs
    policy,         \* dbSeries.opts.CachePolicy()
    pooled,         \* dbSeries.pool != nil
    cachedBlocks,   \* dbSeries.cachedBlocks : start -> block instance
    blocks,         \* the block instances of the block pool
    buffer,         \* dbSeries.buffer : start -> write types of its buckets
    wlChan,         \* wired list update channel
    wlTracked,      \* blocks the wired list owns
    last,           \* the last completed operation: what it returned and did
    lock,           \* dbSeries.RWMutex: its writer and its readers
    pc,             \* per thread: 0 outside a call, else the step it is at
    local,          \* per thread: the variables b and list of its call
    server          \* what the start-up code of the server shares with its
                    \* goroutines: runtime options, kv store and watch

vars == <<now, id, bs, policy, pooled, cachedBlocks, blocks, buffer,
          wlChan, wlTracked, last, lock, pc, local, server>>

concVars == <<lock, pc, local>>

seriesVars == <<id, bs, policy, pooled, cachedBlocks, blocks, buffer>>

\* ------------------------------------------------------------ time
\* time.Time.Truncate(d): round down to a multiple of d
Truncate(t, d) == IF d <= 0 THEN t ELSE t - (t % d)

\* ------------------------------------------------------------ wiring
\* options that carry a wired list whatever the policy
WiredList_always(p) == TRUE

\* withEncodingAndPoolingOptions: a wired list is set iff the policy is LRU
WiredList(p) == p = CacheLRU

\* ------------------------------------------------- block cache container
EmptyBlocks == [t \in Starts |-> NoBlock]

AllBlocks(cb) == {t \in Starts : cb[t] # NoBlock}

BlocksLen(cb) == Cardinality(AllBlocks(cb))

AddBlock(cb, t, b) == [cb EXCEPT ![t] = b]

RemoveBlockAt(cb, t) == [cb EXCEPT ![t] = NoBlock]

\* ------------------------------------------------------------ block pool
\* an instance that sits in the pool
FreeBlock ==
    [free |-> TRUE, start |-> 0, seriesID |-> NoID, fromDisk |-> FALSE,
     lastRead |-> 0, onEvict |-> FALSE, mergeTarget |-> FALSE,
     sClose |-> 0, wClose |-> 0]

IsClosed(b) == b.sClose + b.wClose > 0

SeqRange(q) == {q[i] : i \in DOMAIN q}

\* block.Close() by the series, applied to a set of instances
CloseAll(bl, S) ==
    [i \in Slots |->
        IF i \in S THEN [bl[i] EXCEPT !.sClose = @ + 1, !.lastRead = 0]
        ELSE bl[i]]

\* An instance nobody refers to any more is back in the pool (closed) or
\* garbage (dropped from the cache unclosed); one that was closed twice is kept.
\* The last read time is only read from blocks in the cache (series.go:220).
Collect(bl, cb, ch, tr, held) ==
    [i \in Slots |->
        IF \E t \in Starts : cb[t] = i THEN bl[i]
        ELSE IF /\ i \notin SeqRange(ch)
                /\ i \notin tr
                /\ i \notin held
                /\ bl[i].sClose + bl[i].wClose <= 1
        THEN FreeBlock
        ELSE [bl[i] EXCEPT !.lastRead = 0]]

\* the instances the calls under way refer to
HeldIn(loc) == {loc[p].b : p \in Procs} \ {NoBlock}

Held == HeldIn(local)

FreeSlots == {i \in Slots : blocks[i].free /\ i \notin Held}

\* DatabaseBlockPool().Get()
PoolGet == CHOOSE i \in FreeSlots : \A j \in FreeSlots : i <= j

\* ----------------------------------------------------------- write buffer
EmptyBuffer == [t \in Starts |-> {}]

BufferStarts(buf) == {t \in Starts : buf[t] # {}}

BufferIsEmpty(buf) == BufferStarts(buf) = {}

\* databaseBuffer.Stats().wiredBlocks
BufferWiredBlocks(buf) == Cardinality(BufferStarts(buf))

\* databaseBuffer.Tick: the buckets in evicted are dropped
BufferTick(buf, evicted) == [t \in Starts |-> IF t \in evicted THEN {} ELSE buf[t]]

\* ----------------------------------------------------------------- tick
\* a cutoff that is not aligned to the block size
expireCutoff_untruncated(n) == n - RetentionPeriod

\* series.go:161
expireCutoff(n) == Truncate(n - RetentionPeriod, BlockSize)

\* a tick that forgets the retention test
blockExpired_evictedOnly(start, cutoff, evictedBucketTimes) ==
    start \in evictedBucketTimes

\* series.go:166
blockExpired(start, cutoff, evictedBucketTimes) ==
    start < cutoff \/ start \in evictedBucketTimes

\* a tick that closes every expired block itself
closeExpired_always(p, b) == TRUE

\* series.go:189-193: does the series close an expired block
closeExpired(p, b) == ~(p = CacheLRU /\ b.fromDisk)

\* a tick that unwires without looking at the flush state of the block
shouldUnwire_unflushed(p, b, n, bootstrappedSnapshot, retrievable) ==
    CASE p = CacheNone -> TRUE
      [] p = CacheRecentlyRead -> n - b.lastRead >= WiredTimeout
      [] p = CacheLRU -> ~b.fromDisk
      [] OTHER -> FALSE

\* a tick that unwires only blocks read longer ago than the timeout
shouldUnwire_strict(p, b, n, bootstrappedSnapshot, retrievable) ==
    /\ p # CacheAll
    /\ bootstrappedSnapshot
    /\ b.start \in retrievable
    /\ CASE p = CacheNone -> TRUE
         [] p = CacheRecentlyRead -> n - b.lastRead > WiredTimeout
         [] p = CacheLRU -> ~b.fromDisk
         [] OTHER -> FALSE

\* a tick that treats CacheAll as it treats CacheNone
shouldUnwire_cacheAllLikeNone(p, b, n, bootstrappedSnapshot, retrievable) ==
    /\ bootstrappedSnapshot
    /\ b.start \in retrievable
    /\ CASE p \in {CacheNone, CacheAll} -> TRUE
         [] p = CacheRecentlyRead -> n - b.lastRead >= WiredTimeout
         [] p = CacheLRU -> ~b.fromDisk
         [] OTHER -> FALSE

\* a tick that unwires disk-retrieved blocks under CacheLRU as well
shouldUnwire_lruAll(p, b, n, bootstrappedSnapshot, retrievable) ==
    /\ p # CacheAll
    /\ bootstrappedSnapshot
    /\ b.start \in retrievable
    /\ CASE p = CacheNone -> TRUE
         [] p = CacheRecentlyRead -> n - b.lastRead >= WiredTimeout
         [] p = CacheLRU -> TRUE
         [] OTHER -> FALSE

\* a tick that applies the read timeout under CacheNone too
shouldUnwire_noneByReadTime(p, b, n, bootstrappedSnapshot, retrievable) ==
    /\ p # CacheAll
    /\ bootstrappedSnapshot
    /\ b.start \in retrievable
    /\ CASE p \in {CacheNone, CacheRecentlyRead} -> n - b.lastRead >= WiredTimeout
         [] p = CacheLRU -> ~b.fromDisk
         [] OTHER -> FALSE

\* series.go:200-232: under CacheAll no block is unwired (200-204); under the
\* other policies the snapshot must be bootstrapped and report the start
\* as retrievable (207-213) before the policy decides (215-232)
shouldUnwire(p, b, n, bootstrappedSnapshot, retrievable) ==
    /\ p # CacheAll
    /\ bootstrappedSnapshot
    /\ b.start \in retrievable
    /\ CASE p = CacheNone -> TRUE
         [] p = CacheRecentlyRead -> n - b.lastRead >= WiredTimeout
         [] p = CacheLRU -> ~b.fromDisk
         [] OTHER -> FALSE

\* series.go:200-232: the pass reaches the default case of the policy switch,
\* which logs at Fatal level, for a block that is not expired, under a policy
\* that is not CacheAll, with a bootstrapped snapshot that reports the start
\* as retrievable
tickFatal(p, b, bootstrappedSnapshot, retrievable) ==
    /\ p # CacheAll
    /\ bootstrappedSnapshot
    /\ b.start \in retrievable
    /\ p \notin {CacheNone, CacheRecentlyRead, CacheLRU}

\* a pass that counts every block it leaves wired as pending merge
pendingMerge_anyWired(p, b) == p # CacheAll

\* series.go:200-204, 243-248: a block that stays wired counts as pending
\* merge if it has a merge target, except under CacheAll, where the pass
\* moves on to the next block before it asks
pendingMerge(p, b) == p # CacheAll /\ b.mergeTarget

\* a count of the blocks that stay wired only
countedActive_afterUnwire(active, unwired) == active \ unwired

\* series.go:198: a block that is not expired counts as active before the
\* unwire decision is taken, the unwired ones included
countedActive(active, unwired) == active

\* a count that takes every active block for wired
countedWired_all(active, unwired) == active

\* series.go:241-245: a block counts as wired unless the pass unwired it
countedWired(active, unwired) == active \ unwired

\* series.go:152-257; the result carries the new cache and block instances
updateBlocksWithLock(bootstrappedSnapshot, retrievable, evictedBucketTimes, buf) ==
    LET cutoff == expireCutoff(now)
        cached == AllBlocks(cachedBlocks)
        blk(t) == blocks[cachedBlocks[t]]
        expired == {t \in cached : blockExpired(t, cutoff, evictedBucketTimes)}
        active == cached \ expired
        unwired == {t \in active :
                      shouldUnwire(policy, blk(t), now, bootstrappedSnapshot, retrievable)}
        wired == countedWired(active, unwired)
        closed == {cachedBlocks[t] : t \in {u \in expired : closeExpired(policy, blk(u))}}
                    \cup {cachedBlocks[t] : t \in unwired}
        bufWired == BufferWiredBlocks(buf)
    IN [cachedBlocks |-> [t \in Starts |->
                            IF t \in expired \cup unwired THEN NoBlock ELSE cachedBlocks[t]],
        blocks |-> CloseAll(blocks, closed),
        closed |-> closed,
        expired |-> expired,
        unwired |-> unwired,
        fatal |-> \E t \in active :
                    tickFatal(policy, blk(t), bootstrappedSnapshot, retrievable),
        PendingMergeBlocks |->
            Cardinality({t \in wired : pendingMerge(policy, blk(t))}),
        ActiveBlocks |-> Cardinality(countedActive(active, unwired)) + bufWired,
        WiredBlocks |-> Cardinality(wired) + bufWired,
        UnwiredBlocks |-> Cardinality(unwired),
        madeExpiredBlocks |-> Cardinality(expired),
        madeUnwiredBlocks |-> Cardinality(unwired)]

\* the WarmRetrievable starts of a snapshot, as far as the cached blocks go:
\* the tick of the series looks up the states of its cached blocks only
Retrievable == SUBSET AllBlocks(cachedBlocks)

\* series.go:208-211: the pass asks the snapshot for the state of a block
\* only when the snapshot is bootstrapped, so a snapshot that is not stands
\* for every set of states it could carry
SnapshotStates(bootstrappedSnapshot) ==
    IF bootstrappedSnapshot THEN Retrievable ELSE {{}}

\* databaseBuffer.Tick evicts the buckets whose retention has passed and may
\* evict others it holds; this is the set of results it can report
BufferEvictions(buf) ==
    {e \in SUBSET BufferStarts(buf) :
        \A t \in BufferStarts(buf) : t < expireCutoff(now) => t \in e}

\* a Tick that never reports the series as expired
tickErr_never(activeBlocks) == NoErr

\* series.go:138-143
tickErr(activeBlocks) ==
    IF activeBlocks = 0 THEN ErrSeriesAllDatapointsExpired ELSE NoErr

\* series.go:124-136, what Tick does between Lock and Unlock, with the
\* result it goes on to return; a Fatal log entry ends the process, and
\* nothing of the pass under way is left to observe
tickLocked(bootstrappedSnapshot, retrievable, evicted) ==
    /\ id # NoID
    /\ LET buf == BufferTick(buffer, evicted)
           update == updateBlocksWithLock(bootstrappedSnapshot, retrievable, evicted, buf)
       IN IF update.fatal
          THEN /\ last' = [op |-> "Tick.Fatal"]
               /\ UNCHANGED <<buffer, cachedBlocks, blocks>>
          ELSE
          /\ buffer' = buf
          /\ cachedBlocks' = update.cachedBlocks
          /\ blocks' = Collect(update.blocks, update.cachedBlocks, wlChan, wlTracked, Held)
          /\ last' = [op |-> "Tick",
                      closed |-> update.closed,
                      expired |-> update.expired,
                      unwired |-> update.unwired,
                      EvictedBuckets |-> Cardinality(evicted),
                      ActiveBlocks |-> update.ActiveBlocks,
                      WiredBlocks |-> update.WiredBlocks,
                      UnwiredBlocks |-> update.UnwiredBlocks,
                      MadeExpiredBlocks |-> update.madeExpiredBlocks,
                      MadeUnwiredBlocks |-> update.madeUnwiredBlocks,
                      PendingMergeBlocks |-> update.PendingMergeBlocks,
                      err |-> tickErr(update.ActiveBlocks)]
    /\ UNCHANGED <<server, now, id, bs, policy, pooled, wlChan, wlTracked>>

\* series.go:121-144 as one step
Tick(bootstrappedSnapshot, retrievable, evicted) ==
    /\ tickLocked(bootstrappedSnapshot, retrievable, evicted)
    /\ UNCHANGED concVars

\* ---------------------------------------------------------------- write
\* databaseBuffer.Write: the datapoint lands in the bucket of its block start;
\* a datapoint the bucket already holds is de-duplicated
BufferWrite(buf, timestamp, wt) ==
    LET t == Truncate(timestamp, BlockSize)
    IN [buffer |-> [buf EXCEPT ![t] = @ \cup {wt}],
        wasWritten |-> wt \notin buf[t]]

\* series.go:284-296
Write(timestamp, wt) ==
    /\ id # NoID
    /\ LET w == BufferWrite(buffer, timestamp, wt)
       IN /\ buffer' = w.buffer
          /\ last' = [op |-> "Write",
                      wasWritten |-> w.wasWritten, err |-> NoErr]
    /\ UNCHANGED <<server, now, id, bs, policy, pooled, cachedBlocks, blocks, wlChan, wlTracked,
                   concVars>>

\* ----------------------------------------------------------------- load
\* a load that routes by the opposite flag
loadWriteType_swapped(t, retrievable) ==
    IF t \in retrievable THEN WarmWrite ELSE ColdWrite

\* series.go:472-490: the write type a bootstrapped block is loaded with
loadWriteType(t, retrievable) ==
    IF t \notin retrievable THEN WarmWrite ELSE ColdWrite

\* series.go:470-491: the buffer.Load calls made for the blocks, as a bag
loadCalls(starts, retrievable) ==
    [c \in {<<t, loadWriteType(t, retrievable)>> : t \in starts} |-> 1]

\* series.go:466-492
loadWithLock(buf, starts, retrievable) ==
    LET calls == loadCalls(starts, retrievable)
    IN [t \in Starts |->
          buf[t] \cup {wt \in WriteTypes : BagIn(<<t, wt>>, calls)}]

\* a bootstrap without its guard
alreadyBootstrapped_never(state) == FALSE

\* series.go:443-445
alreadyBootstrapped(state) == state = bootstrapped

\* series.go:432-455
bootstrap(isNil, starts, retrievable) ==
    LET failed == alreadyBootstrapped(bs)
        loads == ~failed /\ ~isNil
    IN /\ bs' = bootstrapped
       /\ buffer' = IF loads THEN loadWithLock(buffer, starts, retrievable) ELSE buffer
       /\ last' = [op |-> "Load", bootstrap |-> TRUE,
                   loads |-> IF loads THEN loadCalls(starts, retrievable) ELSE EmptyBag,
                   NumBlocksMovedToBuffer |-> IF loads THEN Cardinality(starts) ELSE 0,
                   err |-> IF failed THEN errSeriesAlreadyBootstrapped ELSE NoErr]

\* a plain load that marks the series bootstrapped
load_marksBootstrapped(starts, retrievable) ==
    /\ bs' = bootstrapped
    /\ buffer' = loadWithLock(buffer, starts, retrievable)
    /\ last' = [op |-> "Load", bootstrap |-> FALSE,
                loads |-> loadCalls(starts, retrievable),
                NumBlocksMovedToBuffer |-> 0,
                err |-> NoErr]

\* series.go:457-464
load(starts, retrievable) ==
    /\ bs' = bs
    /\ buffer' = loadWithLock(buffer, starts, retrievable)
    /\ last' = [op |-> "Load", bootstrap |-> FALSE,
                loads |-> loadCalls(starts, retrievable),
                NumBlocksMovedToBuffer |-> 0,
                err |-> NoErr]

\* series.go:418-430; a nil DatabaseSeriesBlocks is only passed to bootstrap
Load(optBootstrap, isNil, starts, retrievable) ==
    /\ id # NoID
    /\ isNil => (optBootstrap /\ starts = {})
    /\ IF optBootstrap THEN bootstrap(isNil, starts, retrievable)
                       ELSE load(starts, retrievable)
    /\ UNCHANGED <<server, now, id, policy, pooled, cachedBlocks, blocks, wlChan, wlTracked,
                   concVars>>

\* ---------------------------------------------------------------- flush
\* databaseBuffer.WarmFlush: persists the warm bucket of blockStart
BufferWarmFlush(buf, blockStart, persistFails) ==
    IF WarmWrite \notin buf[blockStart]
    THEN [outcome |-> FlushOutcomeBlockDoesNotExist, err |-> NoErr, persistCalls |-> 0]
    ELSE IF persistFails
    THEN [outcome |-> FlushOutcomeErr, err |-> errPersist, persistCalls |-> 1]
    ELSE [outcome |-> FlushOutcomeFlushedToDisk, err |-> NoErr, persistCalls |-> 1]

\* databaseBuffer.Snapshot: persists what the buckets of blockStart hold
BufferSnapshot(buf, blockStart, persistFails) ==
    IF buf[blockStart] = {}
    THEN [err |-> NoErr, persistCalls |-> 0]
    ELSE IF persistFails
    THEN [err |-> errPersist, persistCalls |-> 1]
    ELSE [err |-> NoErr, persistCalls |-> 1]

\* a flush without its bootstrap check
notBootstrapped_never(state) == FALSE

\* series.go:601-603 and 619-621
notBootstrapped(state) == state # bootstrapped

\* series.go:592-606
WarmFlush(blockStart, persistFails) ==
    /\ id # NoID
    /\ LET f == BufferWarmFlush(buffer, blockStart, persistFails)
       IN last' = IF notBootstrapped(bs)
                  THEN [op |-> "WarmFlush", bufferCalls |-> 0,
                        persistCalls |-> 0, outcome |-> FlushOutcomeErr,
                        err |-> errSeriesNotBootstrapped]
                  ELSE [op |-> "WarmFlush", bufferCalls |-> 1,
                        persistCalls |-> f.persistCalls, outcome |-> f.outcome,
                        err |-> f.err]
    /\ UNCHANGED <<server, now, seriesVars, wlChan, wlTracked, concVars>>

\* series.go:608-624
Snapshot(blockStart, persistFails) ==
    /\ id # NoID
    /\ LET f == BufferSnapshot(buffer, blockStart, persistFails)
       IN last' = IF notBootstrapped(bs)
                  THEN [op |-> "Snapshot", bufferCalls |-> 0,
                        persistCalls |-> 0, err |-> errSeriesNotBootstrapped]
                  ELSE [op |-> "Snapshot", bufferCalls |-> 1,
                        persistCalls |-> f.persistCalls, err |-> f.err]
    /\ UNCHANGED <<server, now, seriesVars, wlChan, wlTracked, concVars>>

\* ------------------------------------------------------ retrieval bridge
\* the variables of a call before it has assigned them: var b, var list
NoLocal == [b |-> NoBlock, got |-> FALSE, list |-> FALSE]

\* a retrieved block reset as if it came from memory
NewDiskBlock_fromMemory(startTime) ==
    [free |-> FALSE, start |-> startTime, seriesID |-> id, fromDisk |-> FALSE,
     lastRead |-> now, onEvict |-> FALSE, mergeTarget |-> FALSE,
     sClose |-> 0, wClose |-> 0]

\* DatabaseBlockPool().Get() + ResetFromDisk + SetLastReadTime, series.go:530-536
NewDiskBlock(startTime) ==
    [free |-> FALSE, start |-> startTime, seriesID |-> id, fromDisk |-> TRUE,
     lastRead |-> now, onEvict |-> FALSE, mergeTarget |-> FALSE,
     sClose |-> 0, wClose |-> 0]

\* an insertion that leaves the block without its eviction callback
SetOnEvictedFromWiredList_skipped(b) == b

\* series.go:414: the block gets the eviction callback of the series
SetOnEvictedFromWiredList(b) == [b EXCEPT !.onEvict = TRUE]

\* series.go:413-416
addBlockWithLock(cb, slot, b) == AddBlock(cb, b.start, slot)

\* WiredList.BlockingUpdate: waits for room in the update channel
BlockingUpdate(b) ==
    /\ Len(wlChan) < ChanCap
    /\ wlChan' = Append(wlChan, b)

\* WiredList.NonBlockingUpdate: drops the update when the channel is full
NonBlockingUpdate(b) ==
    wlChan' = IF Len(wlChan) < ChanCap THEN Append(wlChan, b) ELSE wlChan

\* a callback that trusts every caller
idMatches_always(callID) == TRUE

\* series.go:526-528
idMatches(callID) == callID = id

\* series.go:526-541: what OnRetrieveBlock does while it holds the lock, with
\* the instance slot it takes from the pool
retrieveWithLock(callID, startTime, slot) ==
    IF ~idMatches(callID)
    THEN [cachedBlocks |-> cachedBlocks, blocks |-> blocks,
          local |-> NoLocal]
    ELSE [cachedBlocks |-> addBlockWithLock(cachedBlocks, slot, NewDiskBlock(startTime)),
          blocks |-> [blocks EXCEPT
                        ![slot] = SetOnEvictedFromWiredList(NewDiskBlock(startTime))],
          local |-> [b |-> slot, got |-> TRUE, list |-> WiredList(policy)]]

\* a deferred function that leaves out a block no longer in the cache
updatesList_ifStillCached(loc) ==
    loc.got /\ loc.list /\ cachedBlocks[blocks[loc.b].start] = loc.b

\* series.go:508: the deferred function updates the list
updatesList(loc) == loc.got /\ loc.list

\* an OnRetrieveBlock that updates the wired list before it unlocks
OnRetrieveBlockSteps_updateLocked == <<"Lock", "BlockingUpdate", "Unlock">>

\* series.go:505-524: the lock is taken, the deferred function releases it
\* and only then updates the wired list
OnRetrieveBlockSteps == <<"Lock", "Unlock", "BlockingUpdate">>

AtStep(p, name) ==
    /\ pc[p] \in DOMAIN OnRetrieveBlockSteps
    /\ OnRetrieveBlockSteps[pc[p]] = name

\* the step after this one; 0 when the call returns
StepDone(p) ==
    [pc EXCEPT ![p] = IF @ = Len(OnRetrieveBlockSteps) THEN 0 ELSE @ + 1]

\* series.go:505-507 and 526-541: the call of a retrieving thread from the
\* Lock to the Unlock of the deferred function. The update of the wired
\* list (508-523) is a later step of the thread, RetrieveUpdate; a call
\* that has no block or no list to update returns at once
OnRetrieveBlock(callID, startTime) ==
    /\ idMatches(callID) => FreeSlots # {}
    /\ \E p \in Retrievers :
          /\ pc[p] = 0
          /\ LET r == retrieveWithLock(callID, startTime,
                                       IF idMatches(callID) THEN PoolGet ELSE NoBlock)
             IN /\ cachedBlocks' = r.cachedBlocks
                /\ IF r.local.got /\ r.local.list
                   THEN /\ local' = [local EXCEPT ![p] = r.local]
                        /\ pc' = [pc EXCEPT ![p] =
                                    CHOOSE i \in DOMAIN OnRetrieveBlockSteps :
                                        OnRetrieveBlockSteps[i] = "BlockingUpdate"]
                   ELSE UNCHANGED <<pc, local>>
                /\ blocks' = Collect(r.blocks, r.cachedBlocks, wlChan, wlTracked,
                                     HeldIn(local'))
                /\ last' = [op |-> "OnRetrieveBlock",
                            block |-> r.local.b,
                            poolGets |-> IF r.local.got THEN 1 ELSE 0,
                            updatePending |-> r.local.got /\ r.local.list]
    /\ UNCHANGED <<server, now, id, bs, policy, pooled, buffer, wlChan, wlTracked, lock>>

\* series.go:508-523
RetrieveUpdate(p) ==
    /\ AtStep(p, "BlockingUpdate")
    /\ IF updatesList(local[p])
       THEN BlockingUpdate(local[p].b)
       ELSE UNCHANGED wlChan
    /\ pc' = StepDone(p)
    /\ local' = [local EXCEPT ![p] = NoLocal]
    /\ blocks' = Collect(blocks, cachedBlocks, wlChan', wlTracked, HeldIn(local'))
    /\ last' = [op |-> "OnRetrieveBlock.BlockingUpdate",
                block |-> local[p].b,
                blockingUpdates |-> IF updatesList(local[p]) THEN 1 ELSE 0]
    /\ UNCHANGED <<server, now, id, bs, policy, pooled, cachedBlocks, buffer, wlTracked, lock>>

\* a read that reports every disk block, wired list or not
readUpdatesList_noListCheck(b) == blocks[b].fromDisk

\* series.go:547-550: a read is reported to the wired list only when there
\* is one and the block was retrieved from disk
readUpdatesList(b) == WiredList(policy) /\ blocks[b].fromDisk

\* an OnReadBlock that makes the blocking update
OnReadBlock_blocking(b) ==
    IF readUpdatesList(b)
    THEN BlockingUpdate(b)
    ELSE UNCHANGED wlChan

\* series.go:546-563
OnReadBlock(b) ==
    IF readUpdatesList(b)
    THEN NonBlockingUpdate(b)
    ELSE UNCHANGED wlChan

\* a callback that removes the block whoever the caller names
evictedFromCache_anyCaller(cb, callID, blockStart) ==
    IF cb[blockStart] = NoBlock THEN cb
    ELSE IF ~blocks[cb[blockStart]].fromDisk THEN cb
    ELSE RemoveBlockAt(cb, blockStart)

\* series.go:565-590: the cache after the callback
evictedFromCache(cb, callID, blockStart) ==
    IF ~idMatches(callID) THEN cb
    ELSE IF cb[blockStart] = NoBlock THEN cb
    ELSE IF ~blocks[cb[blockStart]].fromDisk THEN cb
    ELSE RemoveBlockAt(cb, blockStart)

\* series.go:565-590
OnEvictedFromWiredList(callID, blockStart) ==
    /\ cachedBlocks' = evictedFromCache(cachedBlocks, callID, blockStart)
    /\ last' = [op |-> "OnEvictedFromWiredList",
                removed |-> cachedBlocks' # cachedBlocks,
                removedBlock |-> IF cachedBlocks' # cachedBlocks
                                 THEN cachedBlocks[blockStart] ELSE NoBlock,
                invariantViolation |->
                    /\ idMatches(callID)
                    /\ cachedBlocks[blockStart] # NoBlock
                    /\ ~blocks[cachedBlocks[blockStart]].fromDisk]
    /\ UNCHANGED <<server, now, id, bs, policy, pooled, buffer>>

\* ----------------------------------------------------------- wired list
\* the wired list worker takes one update off its channel: an open block
\* retrieved from disk enters the list, any other block leaves it
WiredListProcess ==
    /\ pc[Worker] = 0
    /\ wlChan # <<>>
    /\ LET b == Head(wlChan)
       IN wlTracked' = IF IsClosed(blocks[b]) \/ ~blocks[b].fromDisk
                       THEN wlTracked \ {b} ELSE wlTracked \cup {b}
    /\ wlChan' = Tail(wlChan)
    /\ blocks' = Collect(blocks, cachedBlocks, wlChan', wlTracked', Held)
    /\ last' = [op |-> "WiredListProcess"]
    /\ UNCHANGED <<server, now, id, bs, policy, pooled, cachedBlocks, buffer, concVars>>

\* block.Close() by the wired list
wiredListClose(bl, b) == [bl EXCEPT ![b].wClose = @ + 1, ![b].lastRead = 0]

\* the wired list makes room: it notifies the series and closes a block it owns
WiredListEvict(b) ==
    /\ b \in wlTracked
    /\ wlTracked' = wlTracked \ {b}
    /\ OnEvictedFromWiredList(blocks[b].seriesID, blocks[b].start)
    /\ blocks' = Collect(wiredListClose(blocks, b), cachedBlocks', wlChan, wlTracked', Held)
    /\ UNCHANGED <<wlChan, concVars>>

\* ---------------------------------------------------------------- close
\* a Close that removes all blocks whatever the policy
closedOnClose_all(p, cb) == {cb[t] : t \in AllBlocks(cb)}

\* series.go:641-650: the blocks Close closes through RemoveAll
closedOnClose(p, cb) ==
    IF p = CacheLRU THEN {} ELSE {cb[t] : t \in AllBlocks(cb)}

\* a Close that puts every instance into the pool
poolPuts_always(pl) == 1

\* series.go:657-659: the instance goes back to its pool if it has one
poolPuts(pl) == IF pl THEN 1 ELSE 0

\* a Close that leaves the identity in place
Close_keepsIdentity ==
    /\ id # NoID
    /\ id' = id
    /\ buffer' = EmptyBuffer
    /\ cachedBlocks' = EmptyBlocks
    /\ blocks' = Collect(CloseAll(blocks, closedOnClose(policy, cachedBlocks)),
                         EmptyBlocks, wlChan, wlTracked, Held)
    /\ last' = [op |-> "Close", closed |-> closedOnClose(policy, cachedBlocks),
                poolPuts |-> poolPuts(pooled)]
    /\ UNCHANGED <<server, now, bs, policy, pooled, wlChan, wlTracked, concVars>>

\* series.go:633-660
Close ==
    /\ id # NoID
    /\ id' = NoID
    /\ buffer' = EmptyBuffer
    /\ cachedBlocks' = EmptyBlocks
    /\ blocks' = Collect(CloseAll(blocks, closedOnClose(policy, cachedBlocks)),
                         EmptyBlocks, wlChan, wlTracked, Held)
    /\ last' = [op |-> "Close", closed |-> closedOnClose(policy, cachedBlocks),
                poolPuts |-> poolPuts(pooled)]
    /\ UNCHANGED <<server, now, bs, policy, pooled, wlChan, wlTracked, concVars>>

\* ---------------------------------------------------------------- reset
\* a reset that keeps the cached blocks
Reset_keepsCache(newID, newPolicy) ==
    /\ id' = newID
    /\ cachedBlocks' = cachedBlocks
    /\ buffer' = EmptyBuffer
    /\ policy' = newPolicy
    /\ bs' = bootstrapNotStarted
    /\ blocks' = blocks
    /\ last' = [op |-> "Reset", id |-> newID, policy |-> newPolicy]
    /\ UNCHANGED <<server, now, pooled, wlChan, wlTracked, concVars>>

\* series.go:662-698
Reset(newID, newPolicy) ==
    /\ id' = newID
    /\ cachedBlocks' = EmptyBlocks
    /\ buffer' = EmptyBuffer
    /\ policy' = newPolicy
    /\ bs' = bootstrapNotStarted
    /\ blocks' = Collect(blocks, EmptyBlocks, wlChan, wlTracked, Held)
    /\ last' = [op |-> "Reset", id |-> newID, policy |-> newPolicy]
    /\ UNCHANGED <<server, now, pooled, wlChan, wlTracked, concVars>>

\* -------------------------------------------------------------- metadata
\* the orders in which a range over a Go map can visit the keys in S
MapOrders(S) ==
    {q \in [1..Cardinality(S) -> S] : \A i, j \in DOMAIN q : q[i] = q[j] => i = j}

\* one step of an insertion sort by start time
InsertByStart(q, e) ==
    LET k == Cardinality({i \in DOMAIN q : q[i].Start <= e.Start})
    IN SubSeq(q, 1, k) \o <<e>> \o SubSeq(q, k + 1, Len(q))

RECURSIVE SortByStart(_)
\* FetchBlockMetadataResults.Sort: ascending by start
SortByStart(q) ==
    IF q = <<>> THEN <<>>
    ELSE InsertByStart(SortByStart(SubSeq(q, 1, Len(q) - 1)), q[Len(q)])

RECURSIVE AscendingSeq(_)
\* the elements of a set of times as a sequence, ascending
AscendingSeq(S) ==
    IF S = {} THEN <<>>
    ELSE LET m == CHOOSE x \in S : \A y \in S : y <= x
         IN Append(AscendingSeq(S \ {m}), m)

\* a range test that takes both ends of both intervals as closed
inRange_closed(t, start, end) == ~(start > t + BlockSize \/ t > end)

\* series.go:355: the block [t, t + blockSize) overlaps [start, end)
inRange(t, start, end) == ~(start >= t + BlockSize \/ t >= end)

\* a filter that lets every cached block through
includedInMetadata_all(includeCachedBlocks, b) == TRUE

\* series.go:358-364: cached blocks retrieved from disk are left out unless
\* the options ask for them
includedInMetadata(includeCachedBlocks, b) ==
    ~(~includeCachedBlocks /\ b.fromDisk)

\* databaseBuffer.FetchBlocksMetadata: one entry per bucket in the range
BufferFetchBlocksMetadata(buf, start, end) ==
    LET q == AscendingSeq({t \in BufferStarts(buf) : inRange(t, start, end)})
    IN [i \in DOMAIN q |-> [Start |-> q[i], cached |-> FALSE]]

\* series.go:352-386 for one order of the range over the cache: the entries
\* added to the result
cachedMetadata(order, start, end, includeCachedBlocks) ==
    LET keep == SelectSeq(order,
                    LAMBDA t : /\ inRange(t, start, end)
                               /\ includedInMetadata(includeCachedBlocks,
                                                     blocks[cachedBlocks[t]]))
    IN [i \in DOMAIN keep |-> [Start |-> keep[i], cached |-> TRUE]]

MetadataFailures == {"none", "checksum", "buffer"}

\* series.go:341-411; failure says which of the calls it makes returns an
\* error: Checksum of a block (asked for with IncludeChecksums) or the
\* FetchBlocksMetadata of the buffer
FetchBlocksMetadata(start, end, includeCachedBlocks, failure) ==
    /\ \E order \in MapOrders(AllBlocks(cachedBlocks)) :
          LET fromCache == cachedMetadata(order, start, end, includeCachedBlocks)
              fromBuffer == IF BufferIsEmpty(buffer) THEN <<>>
                            ELSE BufferFetchBlocksMetadata(buffer, start, end)
              failed == \/ failure = "checksum" /\ fromCache # <<>>
                        \/ failure = "buffer" /\ ~BufferIsEmpty(buffer)
          IN last' = [op |-> "FetchBlocksMetadata",
                      start |-> start, end |-> end,
                      includeCachedBlocks |-> includeCachedBlocks,
                      err |-> IF failed THEN "err" ELSE NoErr,
                      results |-> IF failed THEN <<>>
                                  ELSE SortByStart(fromCache \o fromBuffer)]
    /\ UNCHANGED <<server, now, seriesVars, wlChan, wlTracked, concVars>>

\* the clock moves forward
AdvanceClock ==
    /\ now < MaxTime
    /\ now' = now + 1
    /\ last' = [op |-> "AdvanceClock"]
    /\ UNCHANGED <<server, seriesVars, wlChan, wlTracked, concVars>>

\* NewDatabaseSeries / newPooledDatabaseSeries followed by Reset
Init ==
    /\ now = RetentionPeriod
    /\ server = NoServer
    /\ id = DefaultID
    /\ bs = bootstrapNotStarted
    /\ policy \in CachePolicies
    /\ pooled = FALSE
    /\ cachedBlocks = EmptyBlocks
    /\ blocks = [i \in Slots |-> FreeBlock]
    /\ buffer = EmptyBuffer
    /\ wlChan = <<>>
    /\ wlTracked = {}
    /\ last = [op |-> "Init"]
    /\ lock = [writer |-> NoProc, readers |-> {}]
    /\ pc = [p \in Procs |-> 0]
    /\ local = [p \in Procs |-> NoLocal]

\* the cache side of the series: retrieval, tick, eviction, close and reuse
Next ==
    \/ \E b \in BOOLEAN :
          \E r \in SnapshotStates(b), e \in BufferEvictions(buffer) : Tick(b, r, e)
    \/ \E t \in Times : Write(t, WarmWrite)
    \/ \E t \in Starts : OnRetrieveBlock(DefaultID, t)
    \/ \E p \in Retrievers : RetrieveUpdate(p)
    \/ WiredListProcess
    \/ \E b \in wlTracked : WiredListEvict(b)
    \/ Close
    \/ Reset(DefaultID, policy)
    \/ AdvanceClock

Spec == Init /\ [][Next]_vars

\* the bootstrap and flush side of the series, at a fixed time
LoadNext ==
    \/ \E o \in BOOLEAN, s \in SUBSET Starts : \E r \in SUBSET s : Load(o, FALSE, s, r)
    \/ Load(TRUE, TRUE, {}, {})
    \/ \E t \in Times, wt \in WriteTypes : Write(t, wt)
    \/ \E t \in Starts, f \in BOOLEAN : WarmFlush(t, f)
    \/ \E t \in Starts, f \in BOOLEAN : Snapshot(t, f)
    \/ \E b \in BOOLEAN :
          \E r \in SnapshotStates(b), e \in BufferEvictions(buffer) : Tick(b, r, e)
    \/ OnRetrieveBlock(DefaultID, Truncate(now, BlockSize))
    \/ \E p \in Retrievers : RetrieveUpdate(p)
    \/ WiredListProcess
    \/ \E b \in wlTracked : WiredListEvict(b)
    \/ Close
    \/ Reset(DefaultID, policy)

\* the place of a cached start among the cached starts
Rank(t, C) == Cardinality({u \in C : u <= t})

\* a cache filled directly with a block at every start in C: d says which
\* were retrieved from disk, m which have a merge target, r when each was
\* last read
CacheWith(C) == [t \in Starts |-> IF t \in C THEN Rank(t, C) ELSE NoBlock]

BlocksWith(C, d, m, r) ==
    [i \in Slots |->
        IF \E t \in C : Rank(t, C) = i
        THEN LET t == CHOOSE u \in C : Rank(u, C) = i
             IN [free |-> FALSE, start |-> t, seriesID |-> DefaultID,
                 fromDisk |-> d[t], lastRead |-> r[t], onEvict |-> TRUE,
                 mergeTarget |-> m[t], sClose |-> 0, wClose |-> 0]
        ELSE FreeBlock]

\* the last read times that lie up to one step beyond the wired timeout
ReadTimes(n) == {x \in 0..n : n - x <= WiredTimeout + 1}

\* a series in any state a caller that fills the cache by hand can build:
\* blocks of both origins in the cache, with or without a merge target, any
\* policy value, any buffer. The operations of the series reach only some of
\* these states (they cache disk-retrieved blocks without a merge target
\* only), so what holds of the pass from here holds of the pass in the
\* program, and what fails from here need not fail in the program
InputInit ==
    /\ now \in RetentionPeriod..MaxTime
    /\ server = NoServer
    /\ id = DefaultID
    /\ bs = bootstrapNotStarted
    /\ policy \in AnyPolicies
    /\ pooled = FALSE
    /\ \E C \in SUBSET Starts :
          /\ Cardinality(C) <= MaxBlocks
          /\ cachedBlocks = CacheWith(C)
          /\ \E d \in [C -> BOOLEAN], m \in [C -> BOOLEAN], r \in [C -> ReadTimes(now)] :
                blocks = BlocksWith(C, d, m, r)
    /\ buffer \in [Starts -> {{}, {WarmWrite}}]
    /\ wlChan = <<>>
    /\ wlTracked = {}
    /\ last = [op |-> "Init"]
    /\ lock = [writer |-> NoProc, readers |-> {}]
    /\ pc = [p \in Procs |-> 0]
    /\ local = [p \in Procs |-> NoLocal]

\* the process is still running
Alive == last.op # "Tick.Fatal"

\* the tick applied to any series state
InputNext ==
    /\ Alive
    /\ \E b \in BOOLEAN :
          \E r \in SnapshotStates(b), e \in BufferEvictions(buffer) : Tick(b, r, e)

InputSpec == InputInit /\ [][InputNext]_vars

\* the series states that matter to FetchBlocksMetadata, which reads
\* neither the policy nor the clock: blocks of both origins in the cache and
\* any buffer
MetadataInit ==
    /\ now = RetentionPeriod
    /\ server = NoServer
    /\ id = DefaultID
    /\ bs = bootstrapNotStarted
    /\ policy = CacheAll
    /\ pooled = FALSE
    /\ \E C \in SUBSET Starts :
          /\ Cardinality(C) <= MaxBlocks
          /\ cachedBlocks = CacheWith(C)
          /\ \E d \in [C -> BOOLEAN] :
                blocks = BlocksWith(C, d, [t \in C |-> FALSE], [t \in C |-> now])
    /\ buffer \in [Starts -> {{}, {WarmWrite}}]
    /\ wlChan = <<>>
    /\ wlTracked = {}
    /\ last = [op |-> "Init"]
    /\ lock = [writer |-> NoProc, readers |-> {}]
    /\ pc = [p \in Procs |-> 0]
    /\ local = [p \in Procs |-> NoLocal]

MetadataNext ==
    \E start \in Times, end \in Times, c \in BOOLEAN, f \in MetadataFailures :
        FetchBlocksMetadata(start, end, c, f)

MetadataSpec == MetadataInit /\ [][MetadataNext]_vars

\* a series whose blocks, once retrieved from disk, belong to a wired list
LoadInit == Init /\ policy = CacheLRU

LoadSpec == LoadInit /\ [][LoadNext]_vars

\* the callback surface of the series, called with any identity and start,
\* on a plain or a pooled instance that is closed and reused
OnEvictedCall(callID, blockStart) ==
    /\ OnEvictedFromWiredList(callID, blockStart)
    /\ blocks' = Collect(blocks, cachedBlocks', wlChan, wlTracked, Held)
    /\ UNCHANGED <<wlChan, wlTracked, concVars>>

\* NewDatabaseSeries or newPooledDatabaseSeries followed by Reset
BridgeInit ==
    /\ now = RetentionPeriod
    /\ server = NoServer
    /\ id = DefaultID
    /\ bs = bootstrapNotStarted
    /\ policy \in CachePolicies
    /\ pooled \in BOOLEAN
    /\ cachedBlocks = EmptyBlocks
    /\ blocks = [i \in Slots |-> FreeBlock]
    /\ buffer = EmptyBuffer
    /\ wlChan = <<>>
    /\ wlTracked = {}
    /\ last = [op |-> "Init"]
    /\ lock = [writer |-> NoProc, readers |-> {}]
    /\ pc = [p \in Procs |-> 0]
    /\ local = [p \in Procs |-> NoLocal]

BridgeNext ==
    \/ \E c \in CallIDs, t \in Starts : OnRetrieveBlock(c, t)
    \/ \E p \in Retrievers : RetrieveUpdate(p)
    \/ \E c \in CallIDs, t \in Starts : OnEvictedCall(c, t)
    \/ WiredListProcess
    \/ \E b \in wlTracked : WiredListEvict(b)
    \/ Write(now, WarmWrite)
    \/ Close
    \/ \E c \in CallIDs : Reset(c, policy)
    \/ AdvanceClock

BridgeSpec == BridgeInit /\ [][BridgeNext]_vars

\* ------------------------------------------------------------------ reuse
\* one instance taken through bootstrap, writes, retrievals and closes and
\* reset under any identity and any options in between
ReuseNext ==
    \/ \E c \in CallIDs, t \in Starts : OnRetrieveBlock(c, t)
    \/ \E p \in Retrievers : RetrieveUpdate(p)
    \/ WiredListProcess
    \/ Write(now, WarmWrite)
    \/ \E o \in BOOLEAN : Load(o, FALSE, {Truncate(now, BlockSize)}, {})
    \/ \E c \in CallIDs, t \in Starts : OnEvictedCall(c, t)
    \/ Close
    \/ \E c \in CallIDs, p \in CachePolicies : Reset(c, p)

ReuseSpec == BridgeInit /\ [][ReuseNext]_vars

\* =============================================================== threads
\* The operations that never wait while they hold the series lock (Tick,
\* Write, Close, Reset) stay one step each, taken when the lock is free.  The
\* retrieval callback, the read path and the eviction callback of the wired
\* list are split where they take the lock, release it, or use the channel.

\* sync.RWMutex: Lock waits for the writer and the readers, RLock for the writer
LockFree == lock.writer = NoProc /\ lock.readers = {}

HoldsLock(p) == lock.writer = p \/ p \in lock.readers

\* the retrieval subsystem calls OnRetrieveBlock; the instance the call will
\* take from the pool is set aside, so that the bound on live instances never
\* suspends a call that is under way; a call that arrives for another
\* identity while no instance is free sets none aside
RetrieveCall(p) ==
    /\ pc[p] = 0
    /\ idMatches(DefaultID) => FreeSlots # {}
    /\ pc' = [pc EXCEPT ![p] = 1]
    /\ local' = [local EXCEPT ![p] =
                   [b |-> IF FreeSlots # {} THEN PoolGet ELSE NoBlock,
                    got |-> FALSE, list |-> FALSE]]
    /\ last' = [op |-> "OnRetrieveBlock.call"]
    /\ UNCHANGED <<server, now, seriesVars, wlChan, wlTracked, lock>>

\* series.go:505 and 526-541
RetrieveLock(p, startTime) ==
    /\ AtStep(p, "Lock")
    /\ LockFree
    /\ (idMatches(DefaultID) /\ local[p].b = NoBlock) => FreeSlots # {}
    /\ lock' = [lock EXCEPT !.writer = p]
    /\ pc' = StepDone(p)
    /\ LET r == retrieveWithLock(DefaultID, startTime,
                                 IF local[p].b # NoBlock THEN local[p].b
                                 ELSE IF idMatches(DefaultID) THEN PoolGet
                                 ELSE NoBlock)
       IN /\ cachedBlocks' = r.cachedBlocks
          /\ local' = [local EXCEPT ![p] = r.local]
          /\ blocks' = Collect(r.blocks, r.cachedBlocks, wlChan, wlTracked,
                               HeldIn(local'))
    /\ last' = [op |-> "OnRetrieveBlock.Lock"]
    /\ UNCHANGED <<server, now, id, bs, policy, pooled, buffer, wlChan, wlTracked>>

\* series.go:507
RetrieveUnlock(p) ==
    /\ AtStep(p, "Unlock")
    /\ lock.writer = p
    /\ lock' = [lock EXCEPT !.writer = NoProc]
    /\ pc' = StepDone(p)
    /\ last' = [op |-> "OnRetrieveBlock.Unlock"]
    /\ UNCHANGED <<server, now, seriesVars, wlChan, wlTracked, local>>

\* the read path takes the read lock and finds a cached block to serve
ReaderLock ==
    /\ pc[Reader] = 0
    /\ lock.writer = NoProc
    /\ id # NoID
    /\ \E t \in AllBlocks(cachedBlocks) :
          local' = [local EXCEPT ![Reader] =
                      [b |-> cachedBlocks[t], got |-> TRUE, list |-> WiredList(policy)]]
    /\ lock' = [lock EXCEPT !.readers = @ \cup {Reader}]
    /\ pc' = [pc EXCEPT ![Reader] = 1]
    /\ last' = [op |-> "ReadEncoded.RLock"]
    /\ UNCHANGED <<server, now, seriesVars, wlChan, wlTracked>>

\* series.go:546-563, called with the read lock held
ReaderOnReadBlock ==
    /\ pc[Reader] = 1
    /\ OnReadBlock(local[Reader].b)
    /\ pc' = [pc EXCEPT ![Reader] = 2]
    /\ last' = [op |-> "OnReadBlock",
                nonBlockingUpdates |->
                    IF readUpdatesList(local[Reader].b) THEN 1 ELSE 0]
    /\ UNCHANGED <<server, now, seriesVars, wlTracked, lock, local>>

ReaderUnlock ==
    /\ pc[Reader] = 2
    /\ lock' = [lock EXCEPT !.readers = @ \ {Reader}]
    /\ pc' = [pc EXCEPT ![Reader] = 0]
    /\ local' = [local EXCEPT ![Reader] = NoLocal]
    /\ blocks' = Collect(blocks, cachedBlocks, wlChan, wlTracked, HeldIn(local'))
    /\ last' = [op |-> "ReadEncoded.RUnlock"]
    /\ UNCHANGED <<server, now, id, bs, policy, pooled, cachedBlocks, buffer, wlChan, wlTracked>>

\* the wired list worker picks a block it owns to make room
WorkerEvict(b) ==
    /\ pc[Worker] = 0
    /\ b \in wlTracked
    /\ pc' = [pc EXCEPT ![Worker] = 1]
    /\ local' = [local EXCEPT ![Worker] = [b |-> b, got |-> TRUE, list |-> TRUE]]
    /\ last' = [op |-> "WiredList.evict"]
    /\ UNCHANGED <<server, now, seriesVars, wlChan, wlTracked, lock>>

\* series.go:566-589: the worker is inside OnEvictedFromWiredList
WorkerCallbackLock ==
    /\ pc[Worker] = 1
    /\ LockFree
    /\ lock' = [lock EXCEPT !.writer = Worker]
    /\ OnEvictedFromWiredList(blocks[local[Worker].b].seriesID,
                              blocks[local[Worker].b].start)
    /\ blocks' = Collect(blocks, cachedBlocks', wlChan, wlTracked, Held)
    /\ pc' = [pc EXCEPT ![Worker] = 2]
    /\ UNCHANGED <<wlChan, wlTracked, local>>

\* series.go:567
WorkerCallbackUnlock ==
    /\ pc[Worker] = 2
    /\ lock.writer = Worker
    /\ lock' = [lock EXCEPT !.writer = NoProc]
    /\ pc' = [pc EXCEPT ![Worker] = 3]
    /\ last' = [op |-> "OnEvictedFromWiredList.Unlock"]
    /\ UNCHANGED <<server, now, seriesVars, wlChan, wlTracked, local>>

\* after the callback the worker drops the block from its list and closes it
WorkerClose ==
    /\ pc[Worker] = 3
    /\ wlTracked' = wlTracked \ {local[Worker].b}
    /\ local' = [local EXCEPT ![Worker] = NoLocal]
    /\ blocks' = Collect(wiredListClose(blocks, local[Worker].b), cachedBlocks,
                         wlChan, wlTracked', HeldIn(local'))
    /\ pc' = [pc EXCEPT ![Worker] = 0]
    /\ last' = [op |-> "WiredList.close"]
    /\ UNCHANGED <<server, now, id, bs, policy, pooled, cachedBlocks, buffer, wlChan, lock>>

\* the calls of the shard, each from Lock to Unlock
TickCall ==
    /\ LockFree
    /\ \E b \in BOOLEAN, e \in BufferEvictions(buffer) :
          Tick(b, IF b THEN Starts ELSE {}, e)

WriteCall ==
    /\ LockFree
    /\ Write(now, WarmWrite)

CloseCall ==
    /\ LockFree
    /\ Close

ResetCall ==
    /\ LockFree
    /\ Reset(DefaultID, policy)

\* the steps that continue a call or the work of the wired list
Continue ==
    \/ \E p \in Retrievers, t \in Starts : RetrieveLock(p, t)
    \/ \E p \in Retrievers : RetrieveUnlock(p)
    \/ \E p \in Retrievers : RetrieveUpdate(p)
    \/ ReaderOnReadBlock
    \/ ReaderUnlock
    \/ WiredListProcess
    \/ WorkerCallbackLock
    \/ WorkerCallbackUnlock
    \/ WorkerClose

ConcNext ==
    \/ \E p \in Retrievers : RetrieveCall(p)
    \/ \E p \in Retrievers, t \in Starts : RetrieveLock(p, t)
    \/ \E p \in Retrievers : RetrieveUnlock(p)
    \/ \E p \in Retrievers : RetrieveUpdate(p)
    \/ ReaderLock
    \/ ReaderOnReadBlock
    \/ ReaderUnlock
    \/ WiredListProcess
    \/ \E b \in wlTracked : WorkerEvict(b)
    \/ WorkerCallbackLock
    \/ WorkerCallbackUnlock
    \/ WorkerClose
    \/ TickCall
    \/ WriteCall
    \/ CloseCall
    \/ ResetCall

ConcSpec == Init /\ [][ConcNext]_vars

\* ---------------------------------------------------------------- handoff
\* the threads of a CacheLRU series, with a Reset under another identity
\* among the calls that can come between the steps of a retrieval
HandoffNext ==
    \/ ConcNext
    \/ LockFree /\ Reset(StaleID, policy)

HandoffSpec == LoadInit /\ [][HandoffNext]_vars

\* ------------------------------------------------------------------ purge
\* series.go:136-143: the lock is released before the test of ActiveBlocks
\* and the return; the ticker then stands at the return of the sentinel
\* (139, position 2) or at the plain return (142, position 1)
tickReturnsAt(err) ==
    IF err = ErrSeriesAllDatapointsExpired THEN 2 ELSE 1

\* series.go:124-136: the pass under the lock, up to the Unlock
TickPass(bootstrappedSnapshot, retrievable, evicted) ==
    /\ pc[Ticker] = 0
    /\ LockFree
    /\ tickLocked(bootstrappedSnapshot, retrievable, evicted)
    /\ last'.op = "Tick"
    /\ pc' = [pc EXCEPT ![Ticker] = tickReturnsAt(last'.err)]
    /\ UNCHANGED <<lock, local>>

\* series.go:138-143: the Tick returns to its caller
TickReturn ==
    /\ pc[Ticker] # 0
    /\ pc' = [pc EXCEPT ![Ticker] = 0]
    /\ last' = [op |-> "Tick.return",
                err |-> IF pc[Ticker] = 2
                        THEN ErrSeriesAllDatapointsExpired ELSE NoErr]
    /\ UNCHANGED <<server, now, seriesVars, wlChan, wlTracked, lock, local>>

\* a Tick of the series while writes and retrievals of other callers go on
PurgeNext ==
    \/ \E b \in BOOLEAN :
          \E r \in SnapshotStates(b), e \in BufferEvictions(buffer) : TickPass(b, r, e)
    \/ TickReturn
    \/ WriteCall
    \/ \E t \in Starts : LockFree /\ OnRetrieveBlock(DefaultID, t)
    \/ \E p \in Retrievers : RetrieveUpdate(p)
    \/ WiredListProcess
    \/ AdvanceClock

PurgeSpec == Init /\ [][PurgeNext]_vars

\* The scheduler runs every thread that can take a step; a thread waiting for
\* the lock or for room in the channel gets its turn (sync.RWMutex hands the
\* lock to a waiting writer, a channel serves its senders in order).
Fairness ==
    /\ \A p \in Retrievers :
          /\ SF_vars(\E t \in Starts : RetrieveLock(p, t))
          /\ WF_vars(RetrieveUnlock(p))
          /\ SF_vars(RetrieveUpdate(p))
    /\ WF_vars(ReaderOnReadBlock)
    /\ WF_vars(ReaderUnlock)
    /\ WF_vars(WiredListProcess)
    /\ SF_vars(WorkerCallbackLock)
    /\ WF_vars(WorkerCallbackUnlock)
    /\ WF_vars(WorkerClose)

\* the protocol between the series and the wired list: the calls that take
\* the lock or use the channel, under the policy that configures a wired list,
\* with the retrievals of the current block
ProtocolNext ==
    \/ \E p \in Retrievers : RetrieveCall(p)
    \/ \E p \in Retrievers : RetrieveLock(p, Truncate(now, BlockSize))
    \/ \E p \in Retrievers : RetrieveUnlock(p)
    \/ \E p \in Retrievers : RetrieveUpdate(p)
    \/ ReaderLock
    \/ ReaderOnReadBlock
    \/ ReaderUnlock
    \/ WiredListProcess
    \/ \E b \in wlTracked : WorkerEvict(b)
    \/ WorkerCallbackLock
    \/ WorkerCallbackUnlock
    \/ WorkerClose
    \/ TickCall
    \/ WriteCall

FairSpec == LoadInit /\ [][ProtocolNext]_vars /\ Fairness

\* --------------------------------------------------------- lock protocol
\* Every public operation as the sequence of the lock calls it makes and of
\* the fields of the series it reads and writes, one sequence per return
\* path. Two callers run operations on two series instances, each instance
\* with a mutex of its own (series.go:57-58).
Callers == {"c1", "c2"}
Instances == {"s1", "s2"}

L == [act |-> "Lock", field |-> "mutex"]
U == [act |-> "Unlock", field |-> "mutex"]
RL == [act |-> "RLock", field |-> "mutex"]
RU == [act |-> "RUnlock", field |-> "mutex"]
Rd(f) == [act |-> "read", field |-> f]
Wr(f) == [act |-> "write", field |-> f]

\* a Tick that gives the lock up between the buffer tick and the cache pass
TickSteps_unlockedBetween(path) ==
    <<L, Wr("buffer"), U, L, Rd("opts"), Wr("cachedBlocks"), Rd("buffer"), U>>

\* series.go:121-144 with updateBlocksWithLock (152-257): the path on which
\* updateBlocksWithLock returns an error stops after the pass
TickSteps(path) ==
    IF path = "err"
    THEN <<L, Wr("buffer"), Rd("opts"), Wr("cachedBlocks"), U>>
    ELSE <<L, Wr("buffer"), Rd("opts"), Wr("cachedBlocks"), Rd("buffer"), U>>

\* a FetchBlocksMetadata that unlocks by hand and forgets it on an error path
FetchBlocksMetadataSteps_noDefer(path) ==
    CASE path = "checksumErr" ->
            <<Rd("opts"), RL, Rd("cachedBlocks")>>
      [] path = "bufferErr" ->
            <<Rd("opts"), RL, Rd("cachedBlocks"), Rd("buffer"), RU>>
      [] OTHER ->
            <<Rd("opts"), RL, Rd("cachedBlocks"), Rd("buffer"), Rd("opts"),
              Rd("tags"), Rd("id"), RU>>

\* series.go:341-411: the options are read at 346-347, the read lock is
\* taken at 349 and released by the deferred RUnlock on every path
FetchBlocksMetadataSteps(path) ==
    CASE path = "checksumErr" ->
            <<Rd("opts"), RL, Rd("cachedBlocks"), RU>>
      [] path = "bufferErr" ->
            <<Rd("opts"), RL, Rd("cachedBlocks"), Rd("buffer"), RU>>
      [] OTHER ->
            <<Rd("opts"), RL, Rd("cachedBlocks"), Rd("buffer"), Rd("opts"),
              Rd("tags"), Rd("id"), RU>>

\* the operations of series.go that take the lock or use a field of the
\* series, and their return paths
Calls ==
    {<<"Tick", "ok">>, <<"Tick", "err">>,
     <<"FetchBlocksMetadata", "ok">>, <<"FetchBlocksMetadata", "checksumErr">>,
     <<"FetchBlocksMetadata", "bufferErr">>,
     <<"bootstrap", "ok">>, <<"bootstrap", "alreadyBootstrapped">>,
     <<"bootstrap", "nilBlocks">>,
     <<"OnRetrieveBlock", "ok">>, <<"OnRetrieveBlock", "idMismatch">>,
     <<"OnReadBlock", "ok">>,
     <<"OnEvictedFromWiredList", "ok">>, <<"OnEvictedFromWiredList", "idMismatch">>,
     <<"OnEvictedFromWiredList", "absent">>, <<"OnEvictedFromWiredList", "notFromDisk">>,
     <<"WarmFlush", "ok">>, <<"WarmFlush", "notBootstrapped">>,
     <<"Snapshot", "ok">>, <<"Snapshot", "notBootstrapped">>,
     <<"ID", "ok">>, <<"Tags", "ok">>, <<"IsEmpty", "ok">>,
     <<"NumActiveBlocks", "ok">>, <<"IsBootstrapped", "ok">>,
     <<"Write", "ok">>, <<"ReadEncoded", "ok">>,
     <<"FetchBlocksForColdFlush", "ok">>, <<"FetchBlocks", "ok">>,
     <<"load", "ok">>, <<"ColdFlushBlockStarts", "ok">>,
     <<"Close", "ok">>, <<"Reset", "ok">>}

\* series.go:107-698: the lock calls and field accesses of an operation
OpSteps(op, path) ==
    CASE op = "Tick" -> TickSteps(path)
      [] op = "FetchBlocksMetadata" -> FetchBlocksMetadataSteps(path)
      [] op = "bootstrap" /\ path = "ok" ->
            <<L, Rd("bs"), Wr("buffer"), Wr("bs"), U>>
      [] op = "bootstrap" /\ path # "ok" ->
            <<L, Rd("bs"), Wr("bs"), U>>
      [] op = "OnRetrieveBlock" /\ path = "ok" ->
            <<L, Rd("id"), Rd("opts"), Rd("id"), Rd("opts"), Rd("hooks"),
              Wr("cachedBlocks"), Rd("opts"), U>>
      [] op = "OnRetrieveBlock" /\ path # "ok" ->
            <<L, Rd("id"), U>>
      [] op = "OnReadBlock" ->
            <<Rd("opts")>>
      [] op = "OnEvictedFromWiredList" /\ path = "ok" ->
            <<L, Rd("id"), Rd("cachedBlocks"), Wr("cachedBlocks"), U>>
      [] op = "OnEvictedFromWiredList" /\ path = "notFromDisk" ->
            <<L, Rd("id"), Rd("cachedBlocks"), Rd("opts"), U>>
      [] op = "OnEvictedFromWiredList" /\ path = "absent" ->
            <<L, Rd("id"), Rd("cachedBlocks"), U>>
      [] op = "OnEvictedFromWiredList" /\ path = "idMismatch" ->
            <<L, Rd("id"), U>>
      [] op \in {"WarmFlush", "Snapshot"} /\ path = "ok" ->
            <<L, Rd("bs"), Rd("id"), Rd("tags"), Wr("buffer"), U>>
      [] op \in {"WarmFlush", "Snapshot"} /\ path # "ok" ->
            <<L, Rd("bs"), U>>
      [] op = "ID" -> <<RL, Rd("id"), RU>>
      [] op = "Tags" -> <<RL, Rd("tags"), RU>>
      [] op \in {"IsEmpty", "NumActiveBlocks"} ->
            <<RL, Rd("cachedBlocks"), Rd("buffer"), RU>>
      [] op = "IsBootstrapped" -> <<RL, Rd("bs"), RU>>
      [] op \in {"Write", "FetchBlocksForColdFlush", "load"} ->
            <<L, Wr("buffer"), U>>
      [] op = "ReadEncoded" ->
            <<RL, Rd("id"), Rd("hooks"), Rd("opts"), Rd("cachedBlocks"),
              Rd("buffer"), Rd("opts"), RU>>
      [] op = "FetchBlocks" ->
            <<RL, Rd("opts"), Rd("id"), Rd("hooks"), Rd("cachedBlocks"),
              Rd("buffer"), RU>>
      [] op = "ColdFlushBlockStarts" -> <<RL, Rd("buffer"), RU>>
      [] op = "Close" ->
            <<L, Wr("id"), Wr("tags"), Rd("opts"), Wr("cachedBlocks"),
              Rd("opts"), Wr("buffer"), Wr("cachedBlocks"), Rd("pool"), U>>
      [] OTHER ->
            <<L, Wr("id"), Wr("tags"), Wr("cachedBlocks"), Wr("buffer"),
              Wr("opts"), Wr("bs"), Wr("hooks"), U>>

\* a caller outside a call
NoCall == [series |-> "none", op |-> "none", path |-> "none"]

StepsOf(c) == OpSteps(local[c].op, local[c].path)

\* the step the caller takes next; pc counts the steps it has taken, plus one
NextStep(c) == StepsOf(c)[pc[c]]

AtAct(c, acts) ==
    /\ pc[c] \in 1..Len(StepsOf(c))
    /\ NextStep(c).act \in acts

\* what the lock calls a caller has made so far leave it with: "write" after
\* Lock, "read" after RLock, "none" before any and after Unlock or RUnlock
Section(c) ==
    LET done == {i \in 1..(pc[c] - 1) : StepsOf(c)[i].field = "mutex"}
    IN IF pc[c] = 0 \/ done = {} THEN "none"
       ELSE LET k == CHOOSE i \in done : \A j \in done : j <= i
            IN CASE StepsOf(c)[k].act = "Lock" -> "write"
                 [] StepsOf(c)[k].act = "RLock" -> "read"
                 [] OTHER -> "none"

\* a caller enters an operation on one of the instances
Call(c) ==
    /\ pc[c] = 0
    /\ \E s \in Instances, o \in Calls :
          local' = [local EXCEPT ![c] = [series |-> s, op |-> o[1], path |-> o[2]]]
    /\ pc' = [pc EXCEPT ![c] = 1]
    /\ last' = [op |-> "call"]
    /\ UNCHANGED <<server, now, seriesVars, wlChan, wlTracked, lock>>

\* sync.RWMutex.Lock: waits until there is neither a writer nor a reader
DoLock(c) ==
    /\ AtAct(c, {"Lock"})
    /\ lock[local[c].series].writer = NoProc
    /\ lock[local[c].series].readers = {}
    /\ lock' = [lock EXCEPT ![local[c].series].writer = c]
    /\ pc' = [pc EXCEPT ![c] = @ + 1]
    /\ last' = [op |-> "Lock"]
    /\ UNCHANGED <<server, now, seriesVars, wlChan, wlTracked, local>>

\* sync.RWMutex.Unlock
DoUnlock(c) ==
    /\ AtAct(c, {"Unlock"})
    /\ lock' = [lock EXCEPT ![local[c].series].writer = NoProc]
    /\ pc' = [pc EXCEPT ![c] = @ + 1]
    /\ last' = [op |-> "Unlock"]
    /\ UNCHANGED <<server, now, seriesVars, wlChan, wlTracked, local>>

\* sync.RWMutex.RLock: waits until there is no writer
DoRLock(c) ==
    /\ AtAct(c, {"RLock"})
    /\ lock[local[c].series].writer = NoProc
    /\ lock' = [lock EXCEPT ![local[c].series].readers = @ \cup {c}]
    /\ pc' = [pc EXCEPT ![c] = @ + 1]
    /\ last' = [op |-> "RLock"]
    /\ UNCHANGED <<server, now, seriesVars, wlChan, wlTracked, local>>

\* sync.RWMutex.RUnlock
DoRUnlock(c) ==
    /\ AtAct(c, {"RUnlock"})
    /\ lock' = [lock EXCEPT ![local[c].series].readers = @ \ {c}]
    /\ pc' = [pc EXCEPT ![c] = @ + 1]
    /\ last' = [op |-> "RUnlock"]
    /\ UNCHANGED <<server, now, seriesVars, wlChan, wlTracked, local>>

\* the caller reads or writes a field of the series
Access(c) ==
    /\ AtAct(c, {"read", "write"})
    /\ pc' = [pc EXCEPT ![c] = @ + 1]
    /\ last' = [op |-> "access"]
    /\ UNCHANGED <<server, now, seriesVars, wlChan, wlTracked, lock, local>>

\* the operation returns to its caller
Return(c) ==
    /\ pc[c] = Len(StepsOf(c)) + 1
    /\ pc' = [pc EXCEPT ![c] = 0]
    /\ local' = [local EXCEPT ![c] = NoCall]
    /\ last' = [op |-> "return", call |-> local[c].op, path |-> local[c].path]
    /\ UNCHANGED <<server, now, seriesVars, wlChan, wlTracked, lock>>

\* two series instances, nobody in a call
LockInit ==
    /\ now = RetentionPeriod
    /\ server = NoServer
    /\ id = DefaultID
    /\ bs = bootstrapNotStarted
    /\ policy = CacheLRU
    /\ pooled = FALSE
    /\ cachedBlocks = EmptyBlocks
    /\ blocks = [i \in Slots |-> FreeBlock]
    /\ buffer = EmptyBuffer
    /\ wlChan = <<>>
    /\ wlTracked = {}
    /\ last = [op |-> "Init"]
    /\ lock = [s \in Instances |-> [writer |-> NoProc, readers |-> {}]]
    /\ pc = [c \in Callers |-> 0]
    /\ local = [c \in Callers |-> NoCall]

LockNext ==
    \/ \E c \in Callers : Call(c)
    \/ \E c \in Callers : DoLock(c)
    \/ \E c \in Callers : DoUnlock(c)
    \/ \E c \in Callers : DoRLock(c)
    \/ \E c \in Callers : DoRUnlock(c)
    \/ \E c \in Callers : Access(c)
    \/ \E c \in Callers : Return(c)

LockSpec == LockInit /\ [][LockNext]_vars

\* ----------------------------------------------------------------- server
\* the series of a server that is not under test: fresh, outside any call
SeriesIdle ==
    /\ now = RetentionPeriod
    /\ id = DefaultID
    /\ bs = bootstrapNotStarted
    /\ policy = CacheLRU
    /\ pooled = FALSE
    /\ cachedBlocks = EmptyBlocks
    /\ blocks = [i \in Slots |-> FreeBlock]
    /\ buffer = EmptyBuffer
    /\ wlChan = <<>>
    /\ wlTracked = {}
    /\ lock = [writer |-> NoProc, readers |-> {}]

MaxClusterLimit == 5
MaxShards == 2
MaxReplicas == 2

ClusterLimits == (0 - 1)..MaxClusterLimit

\* math.Ceil(float64(a) / float64(b)) for a >= 1 and b >= 1, both far below
\* 2^53, where the conversions and the division lose nothing that Ceil
\* does not restore
Ceil(a, b) == IF a % b = 0 THEN a \div b ELSE (a \div b) + 1

\* a limit per placed shard that is rounded down
clusterLimitToPlacedShardLimit_floor(numShards, replicas, clusterLimit) ==
    IF clusterLimit < 1 THEN 0
    ELSE LET numPlacedShards == numShards * replicas
         IN IF numPlacedShards < 1 THEN 0
            ELSE clusterLimit \div numPlacedShards

\* part_000:1058-1071, with the number of shards and the replica factor of
\* the topology map
clusterLimitToPlacedShardLimit(numShards, replicas, clusterLimit) ==
    IF clusterLimit < 1 THEN 0
    ELSE LET numPlacedShards == numShards * replicas
         IN IF numPlacedShards < 1 THEN 0
            ELSE Ceil(clusterLimit, numPlacedShards)

\* the goroutine of kvWatchNewSeriesLimitPerShard, which calls
\* setNewSeriesLimitPerShardOnChange one call at a time (part_000:882, 905)
Limiter == "limit"

\* kvWatchClientConsistencyLevels watches three keys (part_000:946-982),
\* each from a goroutine of kvWatchStringValue of its own; they differ in
\* the level they set and in nothing else, and one of them runs here
LevelKeys == {"read"}

\* the consistency levels a key can be set to
Levels == {"one", "majority"}

\* what a notification of a level key finds in the watch: a level, no value
\* (the key was deleted), a value that does not unmarshal, or a string
\* that names no level
LevelValues == Levels \cup {"deleted", "unparsable", "invalid"}

\* the level of the client options that onDelete falls back on
defaultLevel == "one"

IdleCall == "idle"
AtUpdate == "Update"

\* the runtime options a goroutine holds between Get and Update
HeldOpts(p) == local[p].runtimeOpts

\* part_000:1041-1051: the limit per placed shard, runtimeOptsMgr.Get() and
\* the comparison; the call returns nil when the limit read is the limit
\* wanted, and goes on to Update (1053-1055) with the options it has read
\* when it is not
setNewSeriesLimitPerShardOnChange(numShards, replicas, clusterLimit) ==
    LET perPlacedShardLimit ==
            clusterLimitToPlacedShardLimit(numShards, replicas, clusterLimit)
        runtimeOpts == server
        same == runtimeOpts.limit = perPlacedShardLimit
    IN /\ pc[Limiter] = IdleCall
       /\ server' = server
       /\ IF same
          THEN UNCHANGED <<pc, local>>
          ELSE /\ pc' = [pc EXCEPT ![Limiter] = AtUpdate]
               /\ local' = [local EXCEPT ![Limiter] =
                               [runtimeOpts |-> runtimeOpts,
                                perPlacedShardLimit |-> perPlacedShardLimit,
                                numPlacedShards |-> numShards * replicas,
                                clusterLimit |-> clusterLimit]]
       /\ last' = [op |-> "setNewSeriesLimitPerShardOnChange",
                   numPlacedShards |-> numShards * replicas,
                   clusterLimit |-> clusterLimit,
                   perPlacedShardLimit |-> perPlacedShardLimit,
                   read |-> runtimeOpts.limit,
                   updateCalls |-> 0,
                   returned |-> same,
                   err |-> NoErr]
       /\ UNCHANGED <<now, seriesVars, wlChan, wlTracked, lock>>

\* part_000:1053-1055: runtimeOptsMgr.Update with the options read at
\* 1047, the limit replaced; updateFails says whether Update rejects them,
\* and then the manager keeps what it holds
LimitUpdate(updateFails) ==
    /\ pc[Limiter] = AtUpdate
    /\ LET newRuntimeOpts ==
               [HeldOpts(Limiter) EXCEPT !.limit = local[Limiter].perPlacedShardLimit]
       IN /\ server' = IF updateFails THEN server ELSE newRuntimeOpts
          /\ last' = [op |-> "setNewSeriesLimitPerShardOnChange.Update",
                      numPlacedShards |-> local[Limiter].numPlacedShards,
                      clusterLimit |-> local[Limiter].clusterLimit,
                      perPlacedShardLimit |-> local[Limiter].perPlacedShardLimit,
                      read |-> HeldOpts(Limiter).limit,
                      updateCalls |-> 1,
                      returned |-> TRUE,
                      err |-> IF updateFails THEN "err" ELSE NoErr]
    /\ pc' = [pc EXCEPT ![Limiter] = IdleCall]
    /\ local' = [local EXCEPT ![Limiter] = NoLocal]
    /\ UNCHANGED <<now, seriesVars, wlChan, wlTracked, lock>>

\* part_000:1017-1033 with the closures of 946-982: the goroutine of a level
\* key takes a notification and the value of the watch; a value that does
\* not unmarshal (1027-1031) or names no level (930, 943) is logged, and
\* otherwise the closure reads the options with runtimeOptsMgr.Get() and
\* sets its level in the copy (926, 939), the level of the client options
\* when the key was deleted (955, 968, 981)
LevelGet(key, value) ==
    /\ pc[key] = IdleCall
    /\ server' = server
    /\ IF value \in {"unparsable", "invalid"}
       THEN /\ UNCHANGED <<pc, local>>
            /\ last' = [op |-> "kvWatchStringValue", key |-> key, err |-> "err"]
       ELSE LET level == IF value = "deleted" THEN defaultLevel ELSE value
            IN /\ pc' = [pc EXCEPT ![key] = AtUpdate]
               /\ local' = [local EXCEPT ![key] =
                               [runtimeOpts |-> [server EXCEPT !.levels[key] = level]]]
               /\ last' = [op |-> "kvWatchStringValue.Get", key |-> key, err |-> NoErr]
    /\ UNCHANGED <<now, seriesVars, wlChan, wlTracked, lock>>

\* part_000:927, 940, 955, 968, 981: runtimeOptsMgr.Update with the copy
\* the closure has read, its level set: the manager then holds every
\* option of the copy, the limit per shard included
LevelUpdate(key, updateFails) ==
    /\ pc[key] = AtUpdate
    /\ server' = IF updateFails THEN server ELSE HeldOpts(key)
    /\ last' = [op |-> "kvWatchStringValue.Update", key |-> key,
                err |-> IF updateFails THEN "err" ELSE NoErr]
    /\ pc' = [pc EXCEPT ![key] = IdleCall]
    /\ local' = [local EXCEPT ![key] = NoLocal]
    /\ UNCHANGED <<now, seriesVars, wlChan, wlTracked, lock>>

\* the runtime options manager with the limit per shard and the levels
\* that earlier calls have left in it, the goroutines of the level keys and
\* of the limit started and none of them in a call
LimitInit ==
    /\ SeriesIdle
    /\ pc = [p \in LevelKeys \cup {Limiter} |-> IdleCall]
    /\ local = [p \in LevelKeys \cup {Limiter} |-> NoLocal]
    /\ last = [op |-> "Init"]
    /\ server \in [limit : 0..MaxClusterLimit, levels : [LevelKeys -> Levels]]

\* the cluster limit is set at start-up and on every change of its kv key,
\* under whatever topology there is at the time, while the goroutines of
\* the level keys set their levels
LimitNext ==
    \/ \E n \in 0..MaxShards, r \in 0..MaxReplicas, c \in ClusterLimits :
          setNewSeriesLimitPerShardOnChange(n, r, c)
    \/ \E f \in BOOLEAN : LimitUpdate(f)
    \/ \E k \in LevelKeys, v \in LevelValues : LevelGet(k, v)
    \/ \E k \in LevelKeys, f \in BOOLEAN : LevelUpdate(k, f)

LimitSpec == LimitInit /\ [][LimitNext]_vars

\* ------------------------------------------------------ bootstrapper watch
MaxUpdates == 3

Main == "main"
Watcher == "watcher"

\* where main stands: returned, or at the select (part_000:1114-1117)
Returned == "returned"
AtSelect == "select"

\* where the goroutine stands: at the range over vw.C() (1094), with a
\* notification taken and vw.Get() to come (1095), with a converted value
\* and onUpdate to come (1105), or past onUpdate at the test of
\* initialized (1107)
AtRange == "range"
AtGet == "get"
AtOnUpdate == "onUpdate"
AtInitialized == "initialized"

\* what the key can hold: a value that does not convert to a string array,
\* one that converts to an empty list, a list cfg.Bootstrap.New rejects,
\* or a list it makes a bootstrapper provider of
Unparsable == "unparsable"
EmptyList == "empty"
Rejected == "rejected"
Accepted == "accepted"
BootstrapperValues == {Unparsable, EmptyList, Rejected, Accepted}

\* a goroutine that raises the signal after every update it applies
signalsInitialized_always(initialized) == TRUE

\* part_000:1107: the signal is raised when it has not been raised before
signalsInitialized(initialized) == ~initialized

\* the kv store sets the key to a value; the watch has room for one
\* notification
KVSet(value) ==
    /\ server.running
    /\ server.version < MaxUpdates
    /\ server' = [server EXCEPT !.version = @ + 1, !.value = value,
                                !.notified = TRUE]
    /\ last' = [op |-> "kv.Set"]
    /\ UNCHANGED <<now, seriesVars, wlChan, wlTracked, concVars>>

\* part_000:1094: the goroutine takes a notification off the channel of
\* the watch
WatcherReceive ==
    /\ server.running
    /\ pc[Watcher] = AtRange
    /\ server.notified
    /\ server' = [server EXCEPT !.notified = FALSE]
    /\ pc' = [pc EXCEPT ![Watcher] = AtGet]
    /\ last' = [op |-> "vw.C", version |-> server.version]
    /\ UNCHANGED <<now, seriesVars, wlChan, wlTracked, lock, local>>

\* part_000:1095-1103: the goroutine reads the value the watch holds by
\* now and converts it; a value that does not convert is logged and
\* skipped, one that converts is kept for onUpdate
WatcherGet ==
    /\ pc[Watcher] = AtGet
    /\ server' = server
    /\ IF server.value # Unparsable
       THEN /\ pc' = [pc EXCEPT ![Watcher] = AtOnUpdate]
            /\ local' = [local EXCEPT ![Watcher] =
                            [version |-> server.version, value |-> server.value]]
            /\ last' = [op |-> "vw.Get", version |-> server.version]
       ELSE /\ pc' = [pc EXCEPT ![Watcher] = AtRange]
            /\ local' = local
            /\ last' = [op |-> "convert.err", version |-> server.version]
    /\ UNCHANGED <<now, seriesVars, wlChan, wlTracked, lock>>

\* part_000:1105 with the closure of 714-736: onUpdate is called with the
\* list converted at 1095; an empty list is logged and dropped (715-718),
\* any other list is stored in cfg.Bootstrap.Bootstrappers (720), and
\* bs.SetBootstrapperProvider (728) is reached when cfg.Bootstrap.New
\* accepts it (721-726)
WatcherOnUpdate ==
    /\ pc[Watcher] = AtOnUpdate
    /\ LET v == local[Watcher]
       IN /\ server' = [server EXCEPT
                           !.delivered = v.version,
                           !.configured = IF v.value = EmptyList THEN @ ELSE v.version,
                           !.applied = IF v.value = Accepted THEN v.version ELSE @]
          /\ last' = [op |-> "onUpdate", version |-> v.version,
                      provider |-> v.value = Accepted]
    /\ pc' = [pc EXCEPT ![Watcher] = AtInitialized]
    /\ local' = [local EXCEPT ![Watcher] = NoLocal]
    /\ UNCHANGED <<now, seriesVars, wlChan, wlTracked, lock>>

\* part_000:1107-1110: close(initializedCh) the first time round
WatcherSignal ==
    /\ pc[Watcher] = AtInitialized
    /\ server' = IF signalsInitialized(server.initialized)
                 THEN [server EXCEPT !.initialized = TRUE, !.closes = @ + 1]
                 ELSE server
    /\ pc' = [pc EXCEPT ![Watcher] = AtRange]
    /\ last' = [op |-> "initialized",
                closes |-> IF signalsInitialized(server.initialized) THEN 1 ELSE 0]
    /\ UNCHANGED <<now, seriesVars, wlChan, wlTracked, lock, local>>

\* time.After(waitTimeout) delivers
TimerFire ==
    /\ pc[Main] = AtSelect
    /\ ~server.timer
    /\ server' = [server EXCEPT !.timer = TRUE]
    /\ last' = [op |-> "time.After"]
    /\ UNCHANGED <<now, seriesVars, wlChan, wlTracked, concVars>>

\* part_000:1114-1117: the select takes one of the cases that can proceed
\* and kvWatchBootstrappers returns
MainReturn ==
    /\ pc[Main] = AtSelect
    /\ \E c \in {"timeout", "initialized"} :
          /\ \/ c = "timeout" /\ server.timer
             \/ c = "initialized" /\ server.closes > 0
          /\ server' = [server EXCEPT !.returnedBy = c]
          /\ last' = [op |-> "kvWatchBootstrappers.return", by |-> c]
    /\ pc' = [pc EXCEPT ![Main] = Returned]
    /\ UNCHANGED <<now, seriesVars, wlChan, wlTracked, lock, local>>

\* part_000:1075-1092: kv.Watch has failed and the server has logged a
\* Fatal, or the goroutine is started and main is at its select; the key
\* may have a value already, of which the watch notifies
WatchInit ==
    /\ SeriesIdle
    /\ local = [p \in {Main, Watcher} |-> NoLocal]
    /\ \E running \in BOOLEAN, value \in BootstrapperValues, notified \in BOOLEAN :
          /\ ~running => (value = Unparsable /\ ~notified)
          /\ server = [running |-> running, version |-> 0, value |-> value,
                       notified |-> notified, initialized |-> FALSE,
                       closes |-> 0, delivered |-> 0 - 1, configured |-> 0 - 1,
                       applied |-> 0 - 1, timer |-> FALSE,
                       returnedBy |-> "none"]
          /\ pc = [p \in {Main, Watcher} |->
                     IF p = Watcher THEN AtRange
                     ELSE IF running THEN AtSelect ELSE "fatal"]
          /\ last = [op |-> IF running THEN "kv.Watch" ELSE "Fatal"]

WatchNext ==
    \/ \E value \in BootstrapperValues : KVSet(value)
    \/ WatcherReceive
    \/ WatcherGet
    \/ WatcherOnUpdate
    \/ WatcherSignal
    \/ TimerFire
    \/ MainReturn

\* the timer delivers, and the scheduler runs main and the goroutine when
\* they can take a step
WatchFairness ==
    /\ WF_vars(TimerFire)
    /\ WF_vars(MainReturn)
    /\ WF_vars(WatcherReceive)
    /\ WF_vars(WatcherGet)
    /\ WF_vars(WatcherOnUpdate)
    /\ WF_vars(WatcherSignal)

WatchSpec == WatchInit /\ [][WatchNext]_vars /\ WatchFairness

\* ================================================================ claims
\* the snapshots a tick can be given, and the buckets the step just taken
\* evicted from the buffer
TickArgs == BOOLEAN \X Retrievable

Evicted == {t \in Starts : buffer[t] # {} /\ buffer'[t] = {}}

\* the cached starts a tick with these evictions does not expire
NonExpired(evicted) ==
    {t \in AllBlocks(cachedBlocks) : ~blockExpired(t, expireCutoff(now), evicted)}

\* C1: a tick removes or closes a non-expired cached block only if the
\* snapshot it was given is bootstrapped and reports the block's start as
\* WarmRetrievable; with a snapshot that is not bootstrapped or reports no
\* start as retrievable, MadeUnwiredBlocks and UnwiredBlocks are 0.
C1_NoPrematureEviction ==
    [][\A a \in TickArgs :
         LET changed == {t \in NonExpired(Evicted) :
                           \/ cachedBlocks'[t] # cachedBlocks[t]
                           \/ cachedBlocks[t] \in last'.closed}
         IN (/\ last'.op = "Tick"
             /\ \/ \E t \in changed : ~(a[1] /\ t \in a[2])
                \/ /\ ~a[1] \/ a[2] = {}
                   /\ ~(last'.MadeUnwiredBlocks = 0 /\ last'.UnwiredBlocks = 0))
            => ~Tick(a[1], a[2], Evicted)]_vars

\* C1 witness: a tick has unwired a flushed block
C1_Witness ==
    /\ last.op = "Tick"
    /\ last.MadeUnwiredBlocks > 0
    /\ last.closed # {}

\* what the series closed in the step just taken
SeriesClosed == IF last.op \in {"Tick", "Close"} THEN last.closed ELSE {}

\* C2: under CacheLRU no step of the series closes a block that is marked
\* retrieved from disk; such a block only leaves the cache map.
C2_NoSeriesCloseUnderLRU ==
    [][policy = CacheLRU =>
         \A i \in Slots :
            (~blocks[i].free /\ blocks[i].fromDisk) =>
                /\ i \notin SeriesClosed'
                /\ (~blocks'[i].free => blocks'[i].sClose = blocks[i].sClose)]_vars

\* C2 witness: under CacheLRU a tick has expired a disk-retrieved block and
\* left it open
C2_Witness ==
    /\ policy = CacheLRU
    /\ last.op = "Tick"
    /\ last.expired # {}
    /\ last.closed = {}
    /\ \E i \in Slots : ~blocks[i].free /\ blocks[i].fromDisk /\ ~IsClosed(blocks[i])
                          /\ \A t \in Starts : cachedBlocks[t] # i

\* the series holds exactly one block, older than the given time, and an
\* empty buffer
OneBlockOlderThan(cutoff) ==
    /\ BlocksLen(cachedBlocks) = 1
    /\ \A t \in AllBlocks(cachedBlocks) : t < cutoff
    /\ BufferIsEmpty(buffer)

\* C10 as stated: with one cached block whose start is older than
\* now - retentionPeriod and an empty buffer, Tick returns AllDatapointsExpired
\* and ActiveBlocks = 0.
C10_Original ==
    [][\A a \in TickArgs :
         (last'.op = "Tick" /\ OneBlockOlderThan(now - RetentionPeriod)
            /\ Tick(a[1], a[2], Evicted)) =>
            (last'.err = ErrSeriesAllDatapointsExpired /\ last'.ActiveBlocks = 0)]_vars

\* C10 amended: with one cached block whose start is older than
\* now - retentionPeriod truncated to the block size, and an empty buffer,
\* Tick returns AllDatapointsExpired and ActiveBlocks = 0.
C10_AllExpiredSignal ==
    [][\A a \in TickArgs :
         (last'.op = "Tick" /\ OneBlockOlderThan(expireCutoff(now))
            /\ Tick(a[1], a[2], Evicted)) =>
            (last'.err = ErrSeriesAllDatapointsExpired /\ last'.ActiveBlocks = 0)]_vars

\* C10 witness: a tick of a series with an empty buffer has expired its only
\* block by age and reported that all datapoints are expired
C10_Witness ==
    /\ last.op = "Tick"
    /\ Cardinality(last.expired) = 1
    /\ last.EvictedBuckets = 0
    /\ last.ActiveBlocks = 0
    /\ last.err = ErrSeriesAllDatapointsExpired
    /\ AllBlocks(cachedBlocks) = {}

LoadArgs == BOOLEAN \X BOOLEAN \X (SUBSET Starts) \X (SUBSET Starts)

\* C6: a bootstrap Load on a bootstrapped series returns
\* errSeriesAlreadyBootstrapped, makes no buffer.Load call, reports
\* NumBlocksMovedToBuffer = 0 and leaves the buffer as it was.
C6_BootstrapGuard ==
    [][\A a \in LoadArgs :
         (last'.op = "Load" /\ bs = bootstrapped /\ Load(TRUE, a[2], a[3], a[4])) =>
            /\ last'.err = errSeriesAlreadyBootstrapped
            /\ last'.loads = EmptyBag
            /\ last'.NumBlocksMovedToBuffer = 0
            /\ buffer' = buffer]_vars

\* C6 witness: a second bootstrap has been refused
C6_Witness ==
    /\ last.op = "Load"
    /\ last.bootstrap
    /\ last.err = errSeriesAlreadyBootstrapped
    /\ bs = bootstrapped

\* C7: the bootstrap state only moves from not-started to bootstrapped, by a
\* Load with Bootstrap=true (every such Load leaves it bootstrapped), and only
\* Reset moves it back.
C7_BootstrapMonotonic ==
    [][/\ (bs = bootstrapped /\ bs' # bootstrapped) => last'.op = "Reset"
       /\ (bs = bootstrapNotStarted /\ bs' # bootstrapNotStarted) =>
             (bs' = bootstrapped /\ last'.op = "Load" /\ last'.bootstrap)
       /\ (last'.op = "Load" /\ last'.bootstrap) => bs' = bootstrapped
       /\ last'.op = "Reset" => bs' = bootstrapNotStarted]_vars

\* C7 witness: a bootstrapped series has been closed and is still bootstrapped
C7_Witness ==
    /\ bs = bootstrapped
    /\ last.op = "Close"

FlushArgs == Starts \X BOOLEAN

\* C8: WarmFlush and Snapshot on a series that is not bootstrapped return
\* errSeriesNotBootstrapped (WarmFlush with FlushOutcomeErr) without calling
\* the buffer or the persist function and without changing the series; on a
\* bootstrapped series they return what the buffer returns.
C8_FlushNeedsBootstrap ==
    [][\A a \in FlushArgs :
         /\ (last'.op = "WarmFlush" /\ WarmFlush(a[1], a[2])) =>
              IF bs # bootstrapped
              THEN /\ last'.err = errSeriesNotBootstrapped
                   /\ last'.outcome = FlushOutcomeErr
                   /\ last'.bufferCalls = 0
                   /\ last'.persistCalls = 0
                   /\ UNCHANGED <<seriesVars, wlChan, wlTracked>>
              ELSE /\ last'.outcome = BufferWarmFlush(buffer, a[1], a[2]).outcome
                   /\ last'.err = BufferWarmFlush(buffer, a[1], a[2]).err
                   /\ last'.bufferCalls = 1
         /\ (last'.op = "Snapshot" /\ Snapshot(a[1], a[2])) =>
              IF bs # bootstrapped
              THEN /\ last'.err = errSeriesNotBootstrapped
                   /\ last'.bufferCalls = 0
                   /\ last'.persistCalls = 0
                   /\ UNCHANGED <<seriesVars, wlChan, wlTracked>>
              ELSE /\ last'.err = BufferSnapshot(buffer, a[1], a[2]).err
                   /\ last'.bufferCalls = 1]_vars

\* C8 witness: a warm flush of a series that is not bootstrapped has failed
C8_Witness ==
    /\ last.op = "WarmFlush"
    /\ last.err = errSeriesNotBootstrapped
    /\ bs = bootstrapNotStarted
    /\ ~BufferIsEmpty(buffer)

\* the buffer.Load calls the claim expects for the blocks of a Load
ExpectedLoads(starts, retrievable) ==
    [c \in {<<t, IF t \in retrievable THEN ColdWrite ELSE WarmWrite>> : t \in starts} |-> 1]

\* every block of the Load is in the buffer once, with the expected tag, and
\* the block cache is untouched
LoadedAsExpected(starts, retrievable) ==
    /\ last'.loads = ExpectedLoads(starts, retrievable)
    /\ \A t \in Starts :
          buffer'[t] = buffer[t] \cup
             (IF t \in starts
              THEN {IF t \in retrievable THEN ColdWrite ELSE WarmWrite} ELSE {})
    /\ cachedBlocks' = cachedBlocks

\* C9 as stated: every block passed to any Load (bootstrap or plain) is loaded
\* into the buffer exactly once, Cold iff its start is WarmRetrievable, and
\* never into the block cache.
C9_Original ==
    [][\A a \in LoadArgs :
         (last'.op = "Load" /\ ~a[2] /\ Load(a[1], a[2], a[3], a[4])) =>
            LoadedAsExpected(a[3], a[4])]_vars

\* C9 amended: the same, for every Load that is not a bootstrap refused with
\* errSeriesAlreadyBootstrapped.
C9_LoadRouting ==
    [][\A a \in LoadArgs :
         (last'.op = "Load" /\ ~a[2] /\ ~(a[1] /\ bs = bootstrapped)
            /\ Load(a[1], a[2], a[3], a[4])) =>
            LoadedAsExpected(a[3], a[4])]_vars

\* C9 witness: one Load has put a block into a warm and another into a cold
\* bucket
C9_Witness ==
    /\ last.op = "Load"
    /\ last.err = NoErr
    /\ \E t, u \in Starts :
          /\ BagIn(<<t, WarmWrite>>, last.loads)
          /\ BagIn(<<u, ColdWrite>>, last.loads)
          /\ WarmWrite \in buffer[t]
          /\ ColdWrite \in buffer[u]

\* C3: in every interleaving of OnRetrieveBlock, Tick, Close, Reset and wired
\* list evictions, with the wired list configured only under CacheLRU, every
\* block instance is closed at most once, counting the closes by the series
\* and the closes by the wired list.
C3_CloseAtMostOnce ==
    \A i \in Slots : blocks[i].sClose + blocks[i].wClose <= 1

\* C3 witness: the wired list is about to close a block that a tick of the
\* series has expired and left open
C3_Witness ==
    /\ policy = CacheLRU
    /\ pc[Worker] = 1
    /\ last.op = "Tick"
    /\ blocks[local[Worker].b].start \in last.expired
    /\ \A t \in Starts : cachedBlocks[t] # local[Worker].b
    /\ ~IsClosed(blocks[local[Worker].b])

\* C4: a thread that is inside the blocking wired list update of
\* OnRetrieveBlock holds neither the write lock nor a read lock of the series.
C4_BlockingUpdateUnlocked ==
    \A p \in Retrievers : AtStep(p, "BlockingUpdate") => ~HoldsLock(p)

\* C4 witness: a retrieval waits for room in the channel while the wired list
\* worker holds the series lock in its eviction callback
C4_Witness ==
    \E p \in Retrievers :
        /\ AtStep(p, "BlockingUpdate")
        /\ updatesList(local[p])
        /\ Len(wlChan) = ChanCap
        /\ lock.writer = Worker

\* some call is under way
InCall == \E p \in Procs : pc[p] # 0

\* C5: no reachable state is a deadlock (whenever a call is under way, some
\* call or the wired list worker can take its next step), and under fair
\* scheduling every started OnRetrieveBlock and every OnEvictedFromWiredList
\* returns.
C5_DeadlockFree ==
    /\ [](InCall => ENABLED Continue)
    /\ \A p \in Retrievers : (pc[p] # 0) ~> (pc[p] = 0)
    /\ (pc[Worker] \in {1, 2}) ~> (pc[Worker] = 3)

\* C5 witness: the channel is full, a retrieval waits for room in it, the
\* worker waits for the series lock in its callback and a reader holds the lock
C5_Witness ==
    /\ Len(wlChan) = ChanCap
    /\ \E p \in Retrievers : AtStep(p, "BlockingUpdate") /\ updatesList(local[p])
    /\ pc[Worker] = 1
    /\ lock.readers = {Reader}

\* C11: OnRetrieveBlock called with an id that differs from the current
\* identity of the series leaves the block cache unchanged, takes no block
\* from the pool and makes no wired list update.
C11_RetrievalIdentityGuard ==
    [][\A c \in CallIDs, t \in Starts :
         (last'.op = "OnRetrieveBlock" /\ c # id /\ OnRetrieveBlock(c, t)) =>
            /\ cachedBlocks' = cachedBlocks
            /\ blocks' = blocks
            /\ last'.poolGets = 0
            /\ wlChan' = wlChan
            /\ ~last'.updatePending
            /\ UNCHANGED <<pc, local>>]_vars

\* C11 witness: a retrieval for another identity has returned on a reused
\* series that holds a block
C11_Witness ==
    /\ id = StaleID
    /\ last.op = "OnRetrieveBlock"
    /\ last.poolGets = 0
    /\ AllBlocks(cachedBlocks) # {}

\* C12: OnRetrieveBlock with the id of the series takes a block from the
\* pool and inserts it at the given start, marked retrieved from disk, last
\* read now, with the eviction callback attached; it issues one blocking
\* update for that block, after the insertion and the release of the lock,
\* if a wired list is configured and none otherwise.
C12_RetrievalInsertsDiskBlock ==
    /\ [][\A c \in CallIDs, t \in Starts :
           (last'.op = "OnRetrieveBlock" /\ c = id /\ OnRetrieveBlock(c, t)) =>
              LET i == cachedBlocks'[t]
              IN /\ i # NoBlock
                 /\ i = last'.block
                 /\ last'.poolGets = 1
                 /\ blocks[i].free
                 /\ ~blocks'[i].free
                 /\ blocks'[i].start = t
                 /\ blocks'[i].seriesID = id
                 /\ blocks'[i].fromDisk
                 /\ blocks'[i].lastRead = now
                 /\ blocks'[i].onEvict
                 /\ blocks'[i].sClose + blocks'[i].wClose = 0
                 /\ \A u \in Starts \ {t} : cachedBlocks'[u] = cachedBlocks[u]
                 /\ wlChan' = wlChan
                 /\ IF policy = CacheLRU
                    THEN /\ last'.updatePending
                         /\ \E p \in Retrievers :
                               /\ pc[p] = 0
                               /\ pc'[p] # 0
                               /\ local'[p].b = i
                    ELSE /\ ~last'.updatePending
                         /\ UNCHANGED <<pc, local>>]_vars
    /\ [](\A p \in Retrievers :
            pc[p] # 0 =>
               /\ local[p].got
               /\ local[p].list
               /\ ~blocks[local[p].b].free
               /\ Len(wlChan) < ChanCap => ENABLED RetrieveUpdate(p))
    /\ [][last'.op = "OnRetrieveBlock.BlockingUpdate" =>
            \E p \in Retrievers :
               /\ pc[p] # 0
               /\ last'.blockingUpdates = 1
               /\ last'.block = local[p].b
               /\ wlChan' = Append(wlChan, local[p].b)
               /\ cachedBlocks' = cachedBlocks
               /\ pc'[p] = 0
               /\ local'[p] = NoLocal]_vars

\* C12 witness: after the clock has moved, a retrieval has inserted a block
\* read now and, the lock released, has handed it to the wired list
C12_Witness ==
    /\ last.op = "OnRetrieveBlock.BlockingUpdate"
    /\ last.blockingUpdates = 1
    /\ now > RetentionPeriod
    /\ \E t \in Starts :
          /\ cachedBlocks[t] = last.block
          /\ blocks[last.block].lastRead = now
          /\ blocks[last.block].onEvict
          /\ wlChan = <<last.block>>

\* C13: OnEvictedFromWiredList(id, blockStart) changes the block cache iff
\* the id is the current identity, a block is cached at blockStart and that
\* block is marked retrieved from disk; then exactly that entry is removed
\* and the series closes nothing; a cached block that is not from disk is
\* only reported as an invariant violation.
C13_EvictionCallback ==
    [][\A c \in CallIDs, t \in Starts :
         (last'.op = "OnEvictedFromWiredList" /\ OnEvictedFromWiredList(c, t)) =>
            LET present == cachedBlocks[t] # NoBlock
                removes == c = id /\ present /\ blocks[cachedBlocks[t]].fromDisk
            IN /\ (cachedBlocks' # cachedBlocks) <=> removes
               /\ removes => cachedBlocks' = [cachedBlocks EXCEPT ![t] = NoBlock]
               /\ last'.removed <=> removes
               /\ \A i \in Slots :
                     (~blocks[i].free /\ ~blocks'[i].free) =>
                         blocks'[i].sClose = blocks[i].sClose
               /\ last'.invariantViolation <=>
                     (c = id /\ present /\ ~blocks[cachedBlocks[t]].fromDisk)]_vars

\* C13 witness: the callback has removed the entry of a block that the wired
\* list still owns and nobody has closed
C13_Witness ==
    /\ last.op = "OnEvictedFromWiredList"
    /\ last.removed
    /\ \E i \in wlTracked :
          /\ cachedBlocks[blocks[i].start] = NoBlock
          /\ ~IsClosed(blocks[i])


\* C14: OnReadBlock never blocks and never takes the series lock: whenever
\* the reader is about to call it the call can run, whatever the state of
\* the update channel and of the lock; it issues one non-blocking update
\* iff a wired list is configured and the block is retrieved from disk, an
\* update that is dropped when the channel is full, and does nothing else.
C14_OnReadBlockNeverBlocks ==
    /\ [](pc[Reader] = 1 => ENABLED ReaderOnReadBlock)
    /\ [][ReaderOnReadBlock =>
            LET b == local[Reader].b
                updates == policy = CacheLRU /\ blocks[b].fromDisk
            IN /\ lock' = lock
               /\ last'.nonBlockingUpdates = (IF updates THEN 1 ELSE 0)
               /\ wlChan' = IF updates /\ Len(wlChan) < ChanCap
                             THEN Append(wlChan, b)
                             ELSE wlChan
               /\ cachedBlocks' = cachedBlocks
               /\ blocks' = blocks]_vars

\* C14 witness: OnReadBlock has returned after its update while the reader
\* still holds the read lock and the wired list worker waits for the lock
C14_Witness ==
    /\ last.op = "OnReadBlock"
    /\ last.nonBlockingUpdates = 1
    /\ pc[Reader] = 2
    /\ Reader \in lock.readers
    /\ pc[Worker] = 1
    /\ Len(wlChan) = ChanCap

\* C15: Close closes every cached block once under a policy other than
\* CacheLRU and none under CacheLRU; afterwards the identity is cleared, the
\* block cache is empty, the write buffer is reset, and the instance is put
\* into its pool once iff it is pooled.
C15_Close ==
    [][(last'.op = "Close" /\ Close) =>
         /\ last'.closed = IF policy = CacheLRU THEN {}
                           ELSE {cachedBlocks[t] : t \in AllBlocks(cachedBlocks)}
         /\ \A i \in last'.closed :
               /\ blocks[i].sClose + blocks[i].wClose = 0
               /\ blocks'[i].free \/ blocks'[i].sClose = 1
         /\ \A i \in Slots \ last'.closed :
               (~blocks[i].free /\ ~blocks'[i].free) =>
                   blocks'[i].sClose = blocks[i].sClose
         /\ id' = NoID
         /\ cachedBlocks' = EmptyBlocks
         /\ buffer' = EmptyBuffer
         /\ last'.poolPuts = IF pooled THEN 1 ELSE 0]_vars

\* C15 witness: a pooled series with a written buffer has closed its cached
\* blocks and gone back to the pool
C15_Witness ==
    /\ last.op = "Close"
    /\ last.closed # {}
    /\ last.poolPuts = 1
    /\ pooled
    /\ id = NoID

\* the cached starts that meet the expiry condition in a tick: older than
\* now - retentionPeriod truncated to the block size, or evicted by the
\* buffer in this tick
ExpiryMet ==
    {t \in AllBlocks(cachedBlocks) :
        \/ t < ((now - RetentionPeriod) \div BlockSize) * BlockSize
        \/ t \in Evicted}

\* the cached starts that do not meet it
Kept == AllBlocks(cachedBlocks) \ ExpiryMet

\* C16: a cached block expires in a Tick iff its start is before
\* (now - retentionPeriod) truncated to the block size or the buffer reported
\* the start as evicted, under every policy and snapshot; afterwards the
\* cache holds no block that met the condition and MadeExpiredBlocks is the
\* number of blocks removed for it.
C16_TickExpiry ==
    [][last'.op = "Tick" =>
         /\ last'.expired = ExpiryMet
         /\ \A t \in ExpiryMet : cachedBlocks'[t] = NoBlock
         /\ \A t \in AllBlocks(cachedBlocks') : t \in Kept
         /\ last'.MadeExpiredBlocks = Cardinality(ExpiryMet)]_vars

\* C16 witness: a tick has expired one block whose start is not before the
\* cutoff, because the buffer evicted that start, and kept another
C16_Witness ==
    /\ last.op = "Tick"
    /\ last.MadeExpiredBlocks = 1
    /\ \E t \in last.expired : t >= ((now - RetentionPeriod) \div BlockSize) * BlockSize
    /\ AllBlocks(cachedBlocks) # {}

\* C17: under CacheRecentlyRead, with a bootstrapped snapshot that reports
\* the start as WarmRetrievable, a non-expired cached block is unwired
\* (removed and closed by the series) iff now - lastReadTime is at least
\* the not-accessed expiry period.
C17_RecentlyReadUnwire ==
    [][\A a \in TickArgs :
         (last'.op = "Tick" /\ policy = CacheRecentlyRead /\ a[1]
            /\ Tick(a[1], a[2], Evicted)) =>
            \A t \in a[2] \cap Kept :
               LET i == cachedBlocks[t]
               IN IF now - blocks[i].lastRead >= WiredTimeout
                  THEN /\ t \in last'.unwired
                       /\ cachedBlocks'[t] = NoBlock
                       /\ i \in last'.closed
                       /\ blocks'[i].free \/ blocks'[i].sClose = 1
                  ELSE /\ t \notin last'.unwired
                       /\ cachedBlocks'[t] = i
                       /\ i \notin last'.closed
                       /\ ~blocks'[i].free
                       /\ blocks'[i].sClose = blocks[i].sClose]_vars

\* C17 witness: one not-accessed period after the start of the run, when no
\* block can have been read longer ago than that period, a tick under
\* CacheRecentlyRead has unwired a block and kept a more recent one
C17_Witness ==
    /\ policy = CacheRecentlyRead
    /\ last.op = "Tick"
    /\ now = RetentionPeriod + WiredTimeout
    /\ last.unwired # {}
    /\ last.closed # {}
    /\ \E t \in AllBlocks(cachedBlocks) :
          now - blocks[cachedBlocks[t]].lastRead < WiredTimeout

\* C18: a block unwired in a Tick counts 1 in ActiveBlocks, UnwiredBlocks
\* and MadeUnwiredBlocks and 0 in WiredBlocks; a Tick that unwires the only
\* block of a series with an empty buffer reports ActiveBlocks = 1,
\* WiredBlocks = 0, MadeUnwiredBlocks = 1 and no error, and leaves the cache
\* empty.
C18_UnwiredCountedActive ==
    [][last'.op = "Tick" =>
            LET unwired == {t \in Kept : cachedBlocks'[t] = NoBlock}
                bufWired == BufferWiredBlocks(buffer')
            IN /\ last'.unwired = unwired
               /\ last'.ActiveBlocks = Cardinality(Kept) + bufWired
               /\ last'.UnwiredBlocks = Cardinality(unwired)
               /\ last'.MadeUnwiredBlocks = Cardinality(unwired)
               /\ last'.WiredBlocks = Cardinality(Kept \ unwired) + bufWired
               /\ (Cardinality(AllBlocks(cachedBlocks)) = 1 /\ unwired # {}
                     /\ BufferIsEmpty(buffer)) =>
                        /\ last'.ActiveBlocks = 1
                        /\ last'.WiredBlocks = 0
                        /\ last'.MadeUnwiredBlocks = 1
                        /\ last'.err = NoErr
                        /\ cachedBlocks' = EmptyBlocks]_vars

\* C18 witness: a tick has unwired the only block of a series with an empty
\* buffer and returned no error
C18_Witness ==
    /\ last.op = "Tick"
    /\ last.ActiveBlocks = 1
    /\ last.WiredBlocks = 0
    /\ last.UnwiredBlocks = 1
    /\ last.MadeUnwiredBlocks = 1
    /\ last.MadeExpiredBlocks = 0
    /\ last.err = NoErr
    /\ AllBlocks(cachedBlocks) = {}
    /\ BufferIsEmpty(buffer)

\* C19: under CacheAll a Tick never unwires: every non-expired cached block
\* stays in the cache unclosed and counts in ActiveBlocks and WiredBlocks,
\* whatever the snapshot and the last read times; MadeUnwiredBlocks is 0.
C19_CacheAllNeverUnwires ==
    [][(last'.op = "Tick" /\ policy = CacheAll) =>
            /\ last'.MadeUnwiredBlocks = 0
            /\ last'.unwired = {}
            /\ \A t \in Kept :
                  LET i == cachedBlocks[t]
                  IN /\ cachedBlocks'[t] = i
                     /\ i \notin last'.closed
                     /\ ~blocks'[i].free
                     /\ blocks'[i].sClose + blocks'[i].wClose = 0
            /\ last'.ActiveBlocks = Cardinality(Kept) + BufferWiredBlocks(buffer')
            /\ last'.WiredBlocks = last'.ActiveBlocks]_vars

\* C19 witness: under CacheAll a tick has kept and counted a block that was
\* last read at least the not-accessed period ago
C19_Witness ==
    /\ policy = CacheAll
    /\ last.op = "Tick"
    /\ last.WiredBlocks >= 1
    /\ last.MadeUnwiredBlocks = 0
    /\ \E t \in AllBlocks(cachedBlocks) :
          /\ now - blocks[cachedBlocks[t]].lastRead >= WiredTimeout
          /\ ~IsClosed(blocks[cachedBlocks[t]])

\* C20: under CacheNone a Tick with a bootstrapped snapshot unwires every
\* non-expired cached block whose start the snapshot reports as
\* WarmRetrievable, removing it and closing it once; afterwards the cache
\* holds only blocks whose starts are not WarmRetrievable.
C20_CacheNoneUnwires ==
    [][\A a \in TickArgs :
         (last'.op = "Tick" /\ policy = CacheNone /\ a[1]
            /\ Tick(a[1], a[2], Evicted)) =>
            /\ \A t \in a[2] \cap Kept :
                  LET i == cachedBlocks[t]
                  IN /\ t \in last'.unwired
                     /\ cachedBlocks'[t] = NoBlock
                     /\ i \in last'.closed
                     /\ blocks[i].sClose + blocks[i].wClose = 0
                     /\ blocks'[i].free \/ blocks'[i].sClose = 1
            /\ \A t \in AllBlocks(cachedBlocks') : t \notin a[2]]_vars

\* C20 witness: under CacheNone a tick has unwired a block that was read
\* just before and left another in the cache
C20_Witness ==
    /\ policy = CacheNone
    /\ last.op = "Tick"
    /\ last.MadeUnwiredBlocks = 1
    /\ last.MadeExpiredBlocks = 0
    /\ Cardinality(last.closed) = 1
    /\ AllBlocks(cachedBlocks) # {}

\* C21: under CacheLRU the unwiring step of a Tick removes a non-expired
\* block that the bootstrapped snapshot reports as flushed iff the block was
\* not retrieved from disk; a non-expired block retrieved from disk is
\* never removed or closed by the Tick and stays counted as wired.
C21_LRUUnwire ==
    [][\A a \in TickArgs :
         (last'.op = "Tick" /\ policy = CacheLRU /\ Tick(a[1], a[2], Evicted)) =>
            /\ \A t \in Kept :
                  LET i == cachedBlocks[t]
                  IN /\ (a[1] /\ t \in a[2]) =>
                           /\ (t \in last'.unwired) <=> ~blocks[i].fromDisk
                           /\ (cachedBlocks'[t] = NoBlock) <=> ~blocks[i].fromDisk
                     /\ blocks[i].fromDisk =>
                           /\ cachedBlocks'[t] = i
                           /\ i \notin last'.closed
                           /\ t \notin last'.unwired
            /\ last'.WiredBlocks =
                  Cardinality(Kept \ last'.unwired) + BufferWiredBlocks(buffer')]_vars

\* C21 witness: under CacheLRU one tick has unwired a block that did not
\* come from disk and kept, counted as wired, one that did
C21_Witness ==
    /\ policy = CacheLRU
    /\ last.op = "Tick"
    /\ last.MadeUnwiredBlocks = 1
    /\ last.MadeExpiredBlocks = 0
    /\ last.WiredBlocks = 1
    /\ BufferIsEmpty(buffer)
    /\ \E t \in AllBlocks(cachedBlocks) : blocks[cachedBlocks[t]].fromDisk

\* C22 as stated: whenever Tick runs on a series whose cache policy is none
\* of CacheAll, CacheNone, CacheRecentlyRead and CacheLRU, the fatal error
\* is raised, in every series state; Tick never completes normally.
C22_UnknownPolicyFatal ==
    [][(policy \notin CachePolicies /\ last'.op \in {"Tick", "Tick.Fatal"}) =>
          last'.op = "Tick.Fatal"]_vars

\* C22 witness: a Tick under an unknown policy has completed normally on a
\* series that holds a block and returned no error
C22_Witness ==
    /\ policy \notin CachePolicies
    /\ last.op = "Tick"
    /\ last.err = NoErr
    /\ last.WiredBlocks >= 1
    /\ AllBlocks(cachedBlocks) # {}

MetadataArgs == Times \X Times \X BOOLEAN \X MetadataFailures

\* C23: FetchBlocksMetadata with IncludeCachedBlocks = false returns no
\* entry for a cached block retrieved from disk, and with it true returns
\* one for every cached block in the range; the result, cache entries merged
\* with those of the write buffer, is sorted by start time ascending.
C23_MetadataFiltering ==
    [][\A a \in MetadataArgs :
         (last'.op = "FetchBlocksMetadata" /\ last'.err = NoErr
            /\ a = <<last'.start, last'.end, last'.includeCachedBlocks, "none">>) =>
            LET res == last'.results
                within(t) == a[1] < t + BlockSize /\ t < a[2]
                fromCache == {res[i].Start : i \in {j \in DOMAIN res : res[j].cached}}
                fromBuffer == {res[i].Start : i \in {j \in DOMAIN res : ~res[j].cached}}
                inCache == {t \in AllBlocks(cachedBlocks) : within(t)}
            IN /\ \A i, j \in DOMAIN res : i < j => res[i].Start <= res[j].Start
               /\ fromCache = IF a[3] THEN inCache
                              ELSE {t \in inCache : ~blocks[cachedBlocks[t]].fromDisk}
               /\ fromBuffer = {t \in BufferStarts(buffer) : within(t)}
               /\ Len(res) = Cardinality(fromCache) + Cardinality(fromBuffer)]_vars

\* C23 witness: a result of two entries in ascending order, one of a cached
\* block and one of the buffer, that leaves out a cached block retrieved
\* from disk whose start is in the range, the buffer having an entry for it
C23_Witness ==
    /\ last.op = "FetchBlocksMetadata"
    /\ last.err = NoErr
    /\ Len(last.results) = 2
    /\ last.results[1].cached
    /\ ~last.results[2].cached
    /\ last.results[1].Start < last.results[2].Start
    /\ LET t == last.results[2].Start
       IN cachedBlocks[t] # NoBlock /\ blocks[cachedBlocks[t]].fromDisk

\* a Tick that has ticked the buffer and not yet passed over the cache
TickMid(c) ==
    /\ pc[c] > 0
    /\ local[c].op = "Tick"
    /\ \E i \in 1..(pc[c] - 1) : StepsOf(c)[i] = Wr("buffer")
    /\ \A i \in 1..(pc[c] - 1) : StepsOf(c)[i] # Wr("cachedBlocks")

OnSameSeries(c, d) ==
    /\ c # d
    /\ pc[c] > 0
    /\ pc[d] > 0
    /\ local[c].series = local[d].series

\* C24: on one series the write-locked critical section of an operation
\* overlaps no critical section of another operation, read-locked or
\* write-locked, and nobody is in a critical section between the buffer
\* tick and the cache pass of a Tick; a Lock call waits for nothing but the
\* critical sections on its own series.
C24_MutualExclusion ==
    \A c, d \in Callers :
        /\ OnSameSeries(c, d) =>
              /\ Section(c) = "write" => Section(d) = "none"
              /\ TickMid(c) => Section(d) = "none"
        /\ (c # d /\ AtAct(c, {"Lock"}) /\ ~OnSameSeries(c, d)) => ENABLED DoLock(c)

\* C24 witness: a Tick is between its buffer tick and its cache pass while
\* another caller waits at the Lock call of a Reset on the same series
C24_Witness ==
    \E c, d \in Callers :
        /\ OnSameSeries(c, d)
        /\ TickMid(c)
        /\ Section(c) = "write"
        /\ local[d].op = "Reset"
        /\ AtAct(d, {"Lock"})
        /\ ~ENABLED DoLock(d)

\* C25 as stated: every read or write of a mutable field of the series by a
\* public operation happens while the operation holds the lock of the
\* series, the write lock for a write.
C25_LockCoverage ==
    [][\A c \in Callers :
         Access(c) =>
            LET m == lock[local[c].series]
            IN IF NextStep(c).act = "write"
               THEN m.writer = c
               ELSE m.writer = c \/ c \in m.readers]_vars

\* C25 witness: FetchBlocksMetadata is about to read the options without
\* the lock while a Reset of the same series, holding the write lock, is
\* about to write them
C25_Witness ==
    \E c, d \in Callers :
        /\ OnSameSeries(c, d)
        /\ local[c].op = "FetchBlocksMetadata"
        /\ AtAct(c, {"read"})
        /\ NextStep(c).field = "opts"
        /\ Section(c) = "none"
        /\ local[d].op = "Reset"
        /\ AtAct(d, {"write"})
        /\ NextStep(d).field = "opts"
        /\ lock[local[d].series].writer = d

\* C26: an operation that took the lock of the series has released it when
\* it returns, on every return path; when no operation is under way every
\* lock is free.
C26_LockReleased ==
    /\ [][\A c \in Callers :
            Return(c) =>
               /\ Section(c) = "none"
               /\ \A s \in Instances : lock[s].writer # c /\ c \notin lock[s].readers]_vars
    /\ []((\A c \in Callers : pc[c] = 0) =>
            \A s \in Instances : lock[s].writer = NoProc /\ lock[s].readers = {})

\* C26 witness: FetchBlocksMetadata has returned on its checksum error path
\* and every lock is free
C26_Witness ==
    /\ last.op = "return"
    /\ last.call = "FetchBlocksMetadata"
    /\ last.path = "checksumErr"
    /\ \A c \in Callers : pc[c] = 0
    /\ \A s \in Instances : lock[s].writer = NoProc /\ lock[s].readers = {}

\* C27: Tick returns AllDatapointsExpired iff the ActiveBlocks total, the
\* non-expired cached blocks plus the wired blocks of the buffer, is zero;
\* the result it returns with it carries the counters of the pass, and the
\* removals of the pass stay applied.
C27_AllExpiredSentinel ==
    [][last'.op = "Tick" =>
         LET active == Cardinality(Kept) + BufferWiredBlocks(buffer')
         IN /\ (last'.err = ErrSeriesAllDatapointsExpired) <=> (active = 0)
            /\ last'.err # ErrSeriesAllDatapointsExpired => last'.err = NoErr
            /\ last'.ActiveBlocks = active
            /\ last'.MadeExpiredBlocks = Cardinality(ExpiryMet)
            /\ last'.MadeUnwiredBlocks = Cardinality(last'.unwired)
            /\ last'.EvictedBuckets = Cardinality(Evicted)
            /\ last'.err = ErrSeriesAllDatapointsExpired =>
                  /\ cachedBlocks' = EmptyBlocks
                  /\ buffer' = EmptyBuffer
                  /\ last'.expired = AllBlocks(cachedBlocks)
                  /\ last'.MadeUnwiredBlocks = 0]_vars

\* C27 witness: a Tick has returned AllDatapointsExpired together with the
\* counts of the block it expired and of the bucket the buffer evicted
C27_Witness ==
    /\ last.op = "Tick"
    /\ last.err = ErrSeriesAllDatapointsExpired
    /\ last.MadeExpiredBlocks = 1
    /\ last.EvictedBuckets = 1
    /\ last.ActiveBlocks = 0
    /\ AllBlocks(cachedBlocks) = {}
    /\ BufferIsEmpty(buffer)

\* what a caller can observe of the series
Observable ==
    [id |-> id, policy |-> policy, bs |-> bs,
     cachedBlocks |-> cachedBlocks, buffer |-> buffer]

\* series.go:77-100 followed by 662-698: a series just constructed and reset
\* with the given arguments
FreshReset(newID, newPolicy) ==
    [id |-> newID, policy |-> newPolicy, bs |-> bootstrapNotStarted,
     cachedBlocks |-> EmptyBlocks, buffer |-> EmptyBuffer]

\* C28: whatever was done to the series before, after Reset(id, opts) it
\* has the new identity and options, an empty block cache, an empty write
\* buffer and bootstrap state NotStarted, which is the state of a series
\* just constructed and reset with the same arguments; Reset puts nothing
\* into the pool and leaves the instance as pooled as it was, and the only
\* operation that puts an instance into the pool is Close
C28_ResetReinitializes ==
    [][/\ last'.op = "Reset" =>
             /\ Observable' = FreshReset(last'.id, last'.policy)
             /\ pooled' = pooled
             /\ "poolPuts" \notin DOMAIN last'
       /\ ("poolPuts" \in DOMAIN last' /\ last'.poolPuts > 0) =>
             (last'.op = "Close" /\ pooled /\ id # NoID /\ id' = NoID)]_vars

\* C28 witness: a Reset under another identity has just left a pooled
\* instance in the state of a fresh series, and a Close of it would put it
\* into the pool
C28_Witness ==
    /\ last.op = "Reset"
    /\ last.id = StaleID
    /\ ENABLED (/\ Close /\ last'.poolPuts > 0)
    /\ Observable = FreshReset(StaleID, last.policy)

\* C29: in every TickResult ActiveBlocks = WiredBlocks + UnwiredBlocks and
\* UnwiredBlocks = MadeUnwiredBlocks; the wired blocks of the buffer are
\* added to ActiveBlocks and to WiredBlocks; expired blocks count in none of
\* the three; the cache holds WiredBlocks minus the buffer's count of blocks
\* after the Tick.
C29_CounterConsistency ==
    [][last'.op = "Tick" =>
         LET bufWired == BufferWiredBlocks(buffer')
         IN /\ last'.ActiveBlocks = last'.WiredBlocks + last'.UnwiredBlocks
            /\ last'.UnwiredBlocks = last'.MadeUnwiredBlocks
            /\ last'.ActiveBlocks = Cardinality(Kept) + bufWired
            /\ last'.WiredBlocks - bufWired >= 0
            /\ last'.WiredBlocks + last'.UnwiredBlocks + last'.MadeExpiredBlocks
                  = BlocksLen(cachedBlocks) + bufWired
            /\ BlocksLen(cachedBlocks') = last'.WiredBlocks - bufWired]_vars

\* C29 witness: one Tick has expired a block and unwired another while the
\* buffer held a wired block
C29_Witness ==
    /\ last.op = "Tick"
    /\ last.MadeExpiredBlocks = 1
    /\ last.UnwiredBlocks = 1
    /\ last.WiredBlocks = 1
    /\ last.ActiveBlocks = 2
    /\ BufferWiredBlocks(buffer) = 1
    /\ AllBlocks(cachedBlocks) = {}

Interval(a, b) == {x \in 0..(MaxTime + BlockSize) : a <= x /\ x < b}

\* C31: FetchBlocksMetadata reports a cached block of start t exactly when
\* t < end and start < t + blockSize and the block passes the cached-block
\* filter; for start < end that is when [t, t + blockSize) and [start, end)
\* have an instant in common; a block that ends at start or starts at end
\* is left out.
C31_RangeSelection ==
    [][(last'.op = "FetchBlocksMetadata" /\ last'.err = NoErr) =>
         LET res == last'.results
             start == last'.start
             end == last'.end
             reported == {res[i].Start : i \in {j \in DOMAIN res : res[j].cached}}
             passes(t) == last'.includeCachedBlocks \/ ~blocks[cachedBlocks[t]].fromDisk
         IN \A t \in AllBlocks(cachedBlocks) :
               /\ t \in reported <=> (t < end /\ start < t + BlockSize /\ passes(t))
               /\ start < end =>
                     (t \in reported <=>
                        (Interval(t, t + BlockSize) \cap Interval(start, end) # {}
                           /\ passes(t)))
               /\ (t + BlockSize = start \/ t = end) => t \notin reported]_vars

\* C31 witness: of two cached blocks that both pass the filter, the call
\* has reported the one that starts at the start of the range and left out
\* the one that ends there
C31_Witness ==
    /\ last.op = "FetchBlocksMetadata"
    /\ last.err = NoErr
    /\ last.includeCachedBlocks
    /\ last.start < last.end
    /\ \E t, u \in AllBlocks(cachedBlocks) :
          /\ t + BlockSize = last.start
          /\ u = last.start
          /\ \A i \in DOMAIN last.results :
                last.results[i].cached => last.results[i].Start = u
          /\ \E i \in DOMAIN last.results :
                last.results[i].cached /\ last.results[i].Start = u
\* C32: whatever sequence of Reset, Load, Write, Tick, flush, snapshot,
\* OnRetrieveBlock, eviction callback and Close has run, every block in the
\* cache is marked as retrieved from disk; so no eviction callback finds a
\* cached block that was not retrieved from disk, and under CacheLRU no
\* Tick unwires or closes a cached block.
C32_OnlyDiskBlocksCached ==
    /\ \A t \in AllBlocks(cachedBlocks) :
          /\ ~blocks[cachedBlocks[t]].free
          /\ blocks[cachedBlocks[t]].fromDisk
    /\ last.op = "OnEvictedFromWiredList" => ~last.invariantViolation
    /\ (last.op = "Tick" /\ policy = CacheLRU) =>
          /\ last.unwired = {}
          /\ last.closed = {}
          /\ last.MadeUnwiredBlocks = 0
          /\ last.UnwiredBlocks = 0

\* C32 witness: under CacheLRU a Tick on a bootstrapped series whose write
\* buffer holds loaded data has expired a cached block retrieved from disk
\* without closing it
C32_Witness ==
    /\ policy = CacheLRU
    /\ bs = bootstrapped
    /\ last.op = "Tick"
    /\ last.MadeExpiredBlocks = 1
    /\ last.expired # {}
    /\ last.closed = {}
    /\ last.unwired = {}
    /\ ~BufferIsEmpty(buffer)
\* C33 as stated: when Tick returns AllDatapointsExpired the series holds
\* no data at the moment of the return, the block cache and the write
\* buffer both being empty, also when Write or OnRetrieveBlock calls on the
\* same series run alongside the Tick.
C33_PurgeSignalValid ==
    [][(last'.op = "Tick.return" /\ last'.err = ErrSeriesAllDatapointsExpired) =>
         (AllBlocks(cachedBlocks') = {} /\ BufferIsEmpty(buffer'))]_vars

\* C33 witness: a Tick has returned AllDatapointsExpired after a Write that
\* came between its Unlock and its return, and the write buffer holds the
\* datapoint
C33_Witness ==
    /\ last.op = "Tick.return"
    /\ last.err = ErrSeriesAllDatapointsExpired
    /\ ~BufferIsEmpty(buffer)
\* C34 as stated: the eviction callback removes the cache entry at the
\* start it is given only when that entry is the block instance the wired
\* list is closing, so an entry that a second OnRetrieveBlock for the same
\* start has put in place of the evicted block stays; the cache holds at
\* most one block per start.
C34_EvictsOwnEntryOnly ==
    /\ [][\A b \in wlTracked :
            (last'.op = "OnEvictedFromWiredList" /\ b \notin wlTracked'
               /\ last'.removed) => last'.removedBlock = b]_vars
    /\ [](\A t, u \in AllBlocks(cachedBlocks) :
            /\ blocks[cachedBlocks[t]].start = t
            /\ cachedBlocks[t] = cachedBlocks[u] => t = u)

\* C34 witness: the callback for an evicted block has removed the entry of
\* another block of the same start, which is still open and still in the
\* hands of the wired list
C34_Witness ==
    /\ last.op = "OnEvictedFromWiredList"
    /\ last.removed
    /\ LET b == last.removedBlock
       IN /\ ~blocks[b].free
          /\ ~IsClosed(blocks[b])
          /\ blocks[b].fromDisk
          /\ b \in wlTracked \cup SeqRange(wlChan)
          /\ cachedBlocks[blocks[b].start] = NoBlock
\* a retrieval that has inserted its block and released the lock, and has
\* the blocking update of the wired list still to make
InWindow(p) ==
    /\ pc[p] = 3
    /\ local[p].got
    /\ policy = CacheLRU

\* C35: under CacheLRU a block inserted by OnRetrieveBlock is passed to
\* BlockingUpdate exactly once, at the end of the call, also when a Tick
\* has expired it, a Close or Reset has emptied the cache or the series has
\* been reset to another identity since the lock was released; and the
\* series has not closed the block when the wired list receives it.
C35_HandoffSurvivesWindow ==
    /\ [](\A p \in Retrievers :
            InWindow(p) =>
               /\ ~blocks[local[p].b].free
               /\ blocks[local[p].b].fromDisk
               /\ blocks[local[p].b].sClose = 0)
    /\ [][\A p \in Retrievers :
            (InWindow(p) /\ pc'[p] # pc[p]) =>
               /\ wlChan' = Append(wlChan, local[p].b)
               /\ last'.op = "OnRetrieveBlock.BlockingUpdate"
               /\ last'.blockingUpdates = 1
               /\ blocks'[local[p].b].sClose = 0]_vars
    /\ [][(last'.op = "OnRetrieveBlock.BlockingUpdate"
             /\ last'.blockingUpdates > 0) =>
            \E p \in Retrievers : InWindow(p) /\ pc'[p] = 0]_vars
    /\ [][\A p \in Retrievers :
            (pc[p] = 2 /\ pc'[p] # pc[p] /\ local[p].got) => InWindow(p)']_vars

\* C35 witness: the wired list has just received, open, the block of a
\* retrieval whose series was reset to another identity after the lock was
\* released, the block being in no cache any more
C35_Witness ==
    /\ last.op = "OnRetrieveBlock.BlockingUpdate"
    /\ last.blockingUpdates = 1
    /\ id = StaleID
    /\ wlChan # <<>>
    /\ LET b == wlChan[Len(wlChan)]
       IN /\ ~IsClosed(blocks[b])
          /\ blocks[b].seriesID = DefaultID
          /\ cachedBlocks[blocks[b].start] = NoBlock
Callbacks == {"OnRetrieveBlock", "OnEvictedFromWiredList"}

\* C36: a retrieval or eviction callback that arrives on a closed instance,
\* or with an identity other than the one the instance has since been
\* reset to, completes and leaves the block cache, the write buffer, the
\* bootstrap state and the identity as they were; it takes no block from
\* the pool and sends nothing to the wired list.
C36_StaleCallbacksIgnored ==
    /\ [][(last.op = "Close" /\ last'.op \in Callbacks) =>
            /\ id = NoID
            /\ UNCHANGED <<id, bs, policy, pooled, cachedBlocks, buffer, blocks, wlChan>>
            /\ last'.op = "OnRetrieveBlock" =>
                  (last'.poolGets = 0 /\ ~last'.updatePending /\ pc' = pc)
            /\ last'.op = "OnEvictedFromWiredList" =>
                  (~last'.removed /\ ~last'.invariantViolation)]_vars
    /\ [][\A c \in CallIDs, t \in Starts :
            (c # id /\ last'.op \in Callbacks
               /\ (OnRetrieveBlock(c, t) \/ OnEvictedCall(c, t))) =>
               UNCHANGED <<id, bs, policy, pooled, cachedBlocks, buffer, blocks, wlChan>>]_vars
    /\ [](\A c \in CallIDs, t \in Starts :
            c # id => /\ ENABLED OnEvictedCall(c, t)
                      /\ (\E p \in Retrievers : pc[p] = 0) =>
                            ENABLED OnRetrieveBlock(c, t))

\* C36 witness: an eviction callback has returned without removing
\* anything on a closed instance that was bootstrapped and has gone back to
\* its pool
C36_Witness ==
    /\ id = NoID
    /\ pooled
    /\ bs = bootstrapped
    /\ last.op = "OnEvictedFromWiredList"
    /\ ~last.removed
\* C37: the options the server builds carry a wired list exactly when the
\* series cache policy is CacheLRU: a retrieval that has inserted a block
\* sends it to the wired list iff the policy is CacheLRU, and under
\* CacheAll, CacheNone and CacheRecentlyRead neither OnRetrieveBlock nor
\* OnReadBlock updates a wired list, which never holds nor closes a block
\* of the series.
C37_WiredListIffLRU ==
    /\ [](policy # CacheLRU =>
            /\ wlChan = <<>>
            /\ wlTracked = {}
            /\ \A i \in Slots : blocks[i].wClose = 0
            /\ \A p \in Retrievers : ~local[p].list
            /\ "blockingUpdates" \in DOMAIN last => last.blockingUpdates = 0
            /\ "nonBlockingUpdates" \in DOMAIN last => last.nonBlockingUpdates = 0)
    /\ [][\A p \in Retrievers :
            (pc[p] = 3 /\ local[p].got /\ pc'[p] # pc[p]) =>
               /\ (wlChan' # wlChan) <=> (policy = CacheLRU)
               /\ (last'.blockingUpdates = 1) <=> (policy = CacheLRU)]_vars

\* C37 witness: under a policy other than CacheLRU a retrieval has finished
\* without an update of a wired list and its block is in the cache, open
C37_Witness ==
    /\ policy \in {CacheAll, CacheNone, CacheRecentlyRead}
    /\ last.op = "OnRetrieveBlock.BlockingUpdate"
    /\ last.blockingUpdates = 0
    /\ \E t \in AllBlocks(cachedBlocks) :
          /\ blocks[cachedBlocks[t]].fromDisk
          /\ ~IsClosed(blocks[cachedBlocks[t]])
\* the limit per placed shard of a call that has taken its first step is
\* 0 when the cluster limit is below 1 or there is no placed shard, and
\* otherwise the cluster limit divided by the placed shards, rounded up
PlacedShardLimitOf(call) ==
    LET placed == call.numPlacedShards
        c == call.clusterLimit
        r == call.perPlacedShardLimit
    IN /\ (c < 1 \/ placed < 1) => r = 0
       /\ (c >= 1 /\ placed >= 1) =>
             (r >= 1 /\ r * placed >= c /\ (r - 1) * placed < c)

\* C39 as stated: clusterLimitToPlacedShardLimit is 0 when the cluster
\* limit is below 1 or there is no placed shard, and otherwise the cluster
\* limit divided by numShards * replicas, rounded up, which is at least 1;
\* setNewSeriesLimitPerShardOnChange calls Update on the runtime options
\* only when that value differs from the limit set in them at the time,
\* and otherwise leaves them as they are.
C39_Original ==
    [][/\ last'.op = "setNewSeriesLimitPerShardOnChange" =>
            /\ PlacedShardLimitOf(last')
            /\ server' = server
            /\ last'.perPlacedShardLimit = server.limit =>
                  (last'.returned /\ last'.updateCalls = 0)
       /\ last'.op = "setNewSeriesLimitPerShardOnChange.Update" =>
            /\ last'.updateCalls = 1
            /\ last'.perPlacedShardLimit # server.limit]_vars

\* C39 amended: clusterLimitToPlacedShardLimit is 0 when the cluster limit
\* is below 1 or there is no placed shard, and otherwise the cluster limit
\* divided by numShards * replicas, rounded up, which is at least 1;
\* setNewSeriesLimitPerShardOnChange calls Update on the runtime options
\* only when that value differs from the limit it has read from them, and
\* otherwise returns nil and leaves them as they are; the Update stores
\* the options read with the limit replaced, whatever the manager holds by
\* then, or fails and stores nothing.
C39_PlacedShardLimit ==
    [][/\ last'.op = "setNewSeriesLimitPerShardOnChange" =>
            LET r == last'.perPlacedShardLimit
            IN /\ PlacedShardLimitOf(last')
               /\ server' = server
               /\ last'.read = server.limit
               /\ last'.updateCalls = 0
               /\ r = server.limit =>
                     (last'.returned /\ last'.err = NoErr
                        /\ pc'[Limiter] = IdleCall)
               /\ r # server.limit =>
                     /\ ~last'.returned
                     /\ pc'[Limiter] = AtUpdate
                     /\ local'[Limiter].runtimeOpts = server
                     /\ local'[Limiter].perPlacedShardLimit = r
       /\ last'.op = "setNewSeriesLimitPerShardOnChange.Update" =>
            LET r == local[Limiter].perPlacedShardLimit
            IN /\ pc[Limiter] = AtUpdate
               /\ r # local[Limiter].runtimeOpts.limit
               /\ last'.updateCalls = 1
               /\ last'.err = NoErr =>
                     server' = [local[Limiter].runtimeOpts EXCEPT !.limit = r]
               /\ last'.err # NoErr => server' = server
               /\ pc'[Limiter] = IdleCall
       /\ (pc[Limiter] = AtUpdate /\ pc'[Limiter] # AtUpdate) =>
            last'.op = "setNewSeriesLimitPerShardOnChange.Update"
       /\ pc[Limiter] = AtUpdate => ENABLED (\E f \in BOOLEAN : LimitUpdate(f))]_vars

\* C39 witness: a cluster limit that the placed shards do not divide has
\* been rounded up and set as the new limit per shard, while the goroutine
\* of a level key holds options it has read before, with another limit
C39_Witness ==
    /\ last.op = "setNewSeriesLimitPerShardOnChange.Update"
    /\ last.numPlacedShards > 1
    /\ last.clusterLimit % last.numPlacedShards # 0
    /\ last.perPlacedShardLimit > 1
    /\ last.updateCalls = 1
    /\ last.err = NoErr
    /\ server.limit = last.perPlacedShardLimit
    /\ \E k \in LevelKeys : pc[k] = AtUpdate /\ HeldOpts(k).limit # server.limit
\* C38: kvWatchBootstrappers returns once the first value that converts
\* has been passed to onUpdate and the signal raised, or once waitTimeout
\* has passed, and not before either; it does return; the signal is raised
\* at most once however many updates arrive; a value that does not convert
\* is skipped without raising it; and a value that arrives after the
\* return is still passed to onUpdate: the goroutine passes on the value
\* it has read from the watch, which a later set may have replaced by
\* then, and in the end has passed on the last value set, if that one
\* converts, and made a provider of it, if cfg.Bootstrap.New accepts it.
C38_WatchBootstrappers ==
    /\ [](server.closes <= 1)
    /\ [](server.closes = 1 <=> server.initialized)
    /\ [](server.initialized => server.delivered >= 0)
    /\ [](server.returnedBy = "initialized" => server.closes = 1)
    /\ [](server.returnedBy = "timeout" => server.timer)
    /\ [](pc[Main] = AtSelect =>
            (ENABLED MainReturn <=> (server.timer \/ server.closes > 0)))
    /\ [](server.running => <>(pc[Main] = Returned))
    /\ [][last'.op = "convert.err" =>
            /\ server.value = Unparsable
            /\ server' = server
            /\ pc'[Watcher] = AtRange]_vars
    /\ [][(pc[Watcher] = AtGet /\ server.value # Unparsable
             /\ pc'[Watcher] # pc[Watcher]) =>
            /\ pc'[Watcher] = AtOnUpdate
            /\ local'[Watcher].version = server.version
            /\ server' = server]_vars
    /\ [][(pc[Watcher] = AtOnUpdate /\ pc'[Watcher] # pc[Watcher]) =>
            /\ last'.op = "onUpdate"
            /\ server'.delivered = local[Watcher].version
            /\ server'.closes = server.closes
            /\ pc'[Watcher] = AtInitialized]_vars
    /\ [][server'.closes # server.closes =>
            (pc[Watcher] = AtInitialized /\ server.delivered >= 0)]_vars
    /\ [](server.notified => <>(pc[Watcher] = AtGet))
    /\ [](pc[Watcher] = AtOnUpdate => <>(pc[Watcher] = AtInitialized))
    /\ <>[]((server.value # Unparsable /\ server.version > 0) =>
              server.delivered = server.version)
    /\ <>[]((server.value = Accepted /\ server.version > 0) =>
              server.applied = server.version)

\* C38 witness: after the return on the timeout a value set later has been
\* passed to onUpdate and made a provider of, the signal having been raised
\* once, after an earlier call of onUpdate
C38_Witness ==
    /\ server.returnedBy = "timeout"
    /\ pc[Main] = Returned
    /\ last.op = "onUpdate"
    /\ server.closes = 1
    /\ server.delivered = server.version
    /\ server.applied = server.version
    /\ server.applied >= 2
====
